---- MODULE Spec2Model ----
(***************************************************************************)
(* SoccerPedia data-access layer: the two-tier cache (CacheManager), the    *)
(* per-source rate limiter and the Source Manager (DataSourceManager).      *)
(*                                                                          *)
(* One set of variables carries the specifications, one per component:      *)
(*   SpecKey    CacheManager._generate_cache_key on parameter dictionaries  *)
(*   SpecCache  CacheManager.get / set / get_or_fetch / clear_*             *)
(*   SpecRate   DataSourceManager._rate_limit                               *)
(*   SpecMgr    DataSourceManager.get_matches / get_standings, call after    *)
(*              call over time                                              *)
(*   SpecFetch  one get_matches / get_standings call, every adapter outcome *)
(*   SpecReq    DataSourceManager._make_request: attempts, sleeps, retries  *)
(*   SpecBatch  BatchDataFetcher.get_comprehensive_league_data              *)
(*   SpecStandings  the standings adapters on upstream bodies               *)
(*   SpecThreads    CacheManager.set and get of one key in several threads  *)
(*   SpecLimiterThreads  _rate_limit of one source in several threads       *)
(*   SpecSnapshot   get_comprehensive_league_data called again over a night *)
(*   SpecDirectory  several CacheManager instances over one cache directory *)
(* Time is the wall clock time.time() in whole seconds.                     *)
(***************************************************************************)
EXTENDS Integers, Sequences, FiniteSets, TLC

VARIABLES
    now,                \* time.time()
    memory_cache,       \* CacheManager.memory_cache: cache key -> entry (per instance in SpecDirectory)
    files,              \* the cache directory: cache key -> file content
    default_ttl,        \* CacheManager.default_ttl
    last_request_time,  \* DataSourceManager.last_request_time: source -> time
    request_count,      \* DataSourceManager.request_count: source -> (minute -> count)
    returned,           \* history: source -> (minute -> _rate_limit calls returned in it)
    calls,              \* number of operations invoked so far
    call                \* the last operation invoked: its arguments and its outcome

vars == <<now, memory_cache, files, default_ttl, last_request_time, request_count, returned, calls, call>>

\* Python's None, where the other values are strings.
None == "None"

\* A dictionary (or a directory) holding nothing.
EmptyMap == [k \in {} |-> None]

\* d with key k bound to v (d[k] = v).
Put(d, k, v) == [x \in DOMAIN d \cup {k} |-> IF x = k THEN v ELSE d[x]]

\* d without key k (del d[k], os.remove).
Remove(d, k) == [x \in DOMAIN d \ {k} |-> d[x]]

(***************************************************************************)
(* Parameter dictionaries and the cache key.                                *)
(* A Python dict is a sequence of <<key, value>> pairs with distinct keys,  *)
(* in insertion order.                                                      *)
(***************************************************************************)

\* The most items a parameter dictionary of SpecKey holds.
MaxParams == 2

\* The keys the callers' parameter dictionaries use.
ParamKeys == {"type", "league", "date", "status"}

\* The values of SpecKey's dictionaries.
ParamValues == {None, "PL"}

\* Python's order on the key strings (str.__lt__): date < league < status < type.
KeyRank(k) ==
    CASE k = "date" -> 1
      [] k = "league" -> 2
      [] k = "season" -> 3
      [] k = "status" -> 4
      [] k = "type" -> 5

\* The dictionaries of at most MaxParams items, in every insertion order.
Dicts ==
    UNION { { d \in [1..n -> ParamKeys \X ParamValues] :
                \A i, j \in 1..n : i # j => d[i][1] # d[j][1] } : n \in 0..MaxParams }

\* The key/value pairs of a dictionary, without their order.
Items(d) == { d[i] : i \in 1..Len(d) }

\* Insert item kv into a sequence of items sorted by key.
RECURSIVE InsertSorted(_, _)
InsertSorted(kv, s) ==
    IF s = <<>> THEN <<kv>>
    ELSE IF KeyRank(kv[1]) <= KeyRank(Head(s)[1]) THEN <<kv>> \o s
    ELSE <<Head(s)>> \o InsertSorted(kv, Tail(s))

\* json.dumps(data, sort_keys=True): the items serialised in key order.
RECURSIVE json_dumps_sorted(_)
json_dumps_sorted(d) ==
    IF d = <<>> THEN <<>>
    ELSE InsertSorted(Head(d), json_dumps_sorted(Tail(d)))

\* json.dumps(data) without sort_keys: the items serialised in insertion order.
json_dumps_unsorted(d) == d

\* hashlib.md5(s.encode()).hexdigest(): the digest of text s (collisions apart,
\* one digest per text).
md5(s) == <<"md5", s>>

\* A key derivation that hashes the dictionary in insertion order.
generate_cache_key_unsorted(data) == md5(json_dumps_unsorted(data))

\* CacheManager._generate_cache_key
generate_cache_key(data) == md5(json_dumps_sorted(data))

cacheVarsUnchanged == UNCHANGED <<memory_cache, files, default_ttl>>
rateVarsUnchanged == UNCHANGED <<last_request_time, request_count, returned>>

\* SpecKey: two parameter dictionaries are drawn, then each is hashed.
InitKey ==
    /\ now = 0
    /\ memory_cache = EmptyMap
    /\ files = EmptyMap
    /\ default_ttl = 3600
    /\ last_request_time = EmptyMap
    /\ request_count = EmptyMap
    /\ returned = EmptyMap
    /\ calls = 0
    /\ call \in { [op |-> "params", p1 |-> a, p2 |-> b] : a \in Dicts, b \in Dicts }

GenerateCacheKey ==
    /\ call.op = "params"
    /\ call' = [op |-> "_generate_cache_key", p1 |-> call.p1, p2 |-> call.p2,
                k1 |-> generate_cache_key(call.p1),
                k2 |-> generate_cache_key(call.p2)]
    /\ calls' = calls + 1
    /\ UNCHANGED now
    /\ cacheVarsUnchanged
    /\ rateVarsUnchanged

NextKey == GenerateCacheKey

SpecKey == InitKey /\ [][NextKey]_vars

\* C1: two parameter dictionaries holding the same key/value pairs in a
\* different order derive the same cache key.
C1_KeyOrderIndependent ==
    (call.op = "_generate_cache_key" /\ Items(call.p1) = Items(call.p2))
        => call.k1 = call.k2

\* C1 witness: two dictionaries of the same two items in different orders were hashed.
C1_Witness ==
    /\ call.op = "_generate_cache_key"
    /\ Items(call.p1) = Items(call.p2)
    /\ call.p1 # call.p2
    /\ call.k1 = call.k2

(***************************************************************************)
(* CacheManager: the in-memory tier and the persisted tier.                 *)
(* A cache entry is [data, timestamp, ttl].  A value (a fetch result, what  *)
(* get returns) is a record with a field kind: "None" for Python's None,    *)
(* "empty_dict" for {}, "dict" for a non-empty dictionary, whose field      *)
(* error is its 'error' item (None when it has none).                       *)
(***************************************************************************)

\* get(cache_key, ttl=None), set(..., ttl=None): the ttl argument left out.
NoneTtl == -1

NoneVal == [kind |-> "None"]

EmptyDict == [kind |-> "empty_dict"]

\* bool(data): None and {} are false.
Truthy(data) == data.kind = "dict"

\* ttl or self.default_ttl: None and 0 are false.
ttl_or_default(ttl) == IF ttl = NoneTtl \/ ttl = 0 THEN default_ttl ELSE ttl

\* CacheManager._is_cache_valid(entry['timestamp'], ttl) at time t, as get calls it.
is_cache_valid(t, entry, ttl) == t - entry.timestamp < ttl_or_default(ttl)

\* json.dump(entry, f): the text of a cache file.
json_dump(entry) == [json |-> "entry", entry |-> entry]

\* The texts a cache file can hold that json_dump did not write there:
\* text that is no JSON, a JSON object without 'timestamp', a JSON array.
CorruptContents == { [json |-> "unparseable"], [json |-> "no_timestamp"], [json |-> "array"] }

\* What json.load(f) followed by entry['timestamp'] raises on a file's text (None: nothing).
load_error(content) ==
    CASE content.json = "unparseable" -> "JSONDecodeError"
      [] content.json = "no_timestamp" -> "KeyError"
      [] content.json = "array" -> "TypeError"
      [] OTHER -> None

\* The exceptions get's file branch catches: except (json.JSONDecodeError, KeyError, OSError).
get_catches(exc) == exc \in {"JSONDecodeError", "KeyError", "OSError"}

\* CacheManager.set at time t on tiers (mem, fs): the tiers after it.
cache_set(mem, fs, t, cache_key, data, ttl) ==
    LET entry == [data |-> data, timestamp |-> t, ttl |-> ttl_or_default(ttl)]
    IN [memory |-> Put(mem, cache_key, entry),
        files |-> Put(fs, cache_key, json_dump(entry))]

\* CacheManager.get at time t on tiers (mem, fs): what it returns (ret) or raises
\* (raised), the tier that answered, and the tiers after it.
cache_get(mem, fs, t, cache_key, ttl) ==
    LET inMem == cache_key \in DOMAIN mem
        memHit == inMem /\ is_cache_valid(t, mem[cache_key], ttl)
        \* line 48: the expired entry is removed
        mem1 == IF inMem /\ ~memHit THEN Remove(mem, cache_key) ELSE mem
    IN  IF memHit
        THEN [ret |-> mem[cache_key].data, raised |-> None, tier |-> "memory",
              memory |-> mem, files |-> fs]
        ELSE IF cache_key \notin DOMAIN fs
        THEN [ret |-> NoneVal, raised |-> None, tier |-> "miss",
              memory |-> mem1, files |-> fs]
        ELSE LET content == fs[cache_key]
                 exc == load_error(content)
             IN  IF exc # None
                 THEN IF get_catches(exc)
                      THEN [ret |-> NoneVal, raised |-> None, tier |-> "miss",
                            memory |-> mem1, files |-> Remove(fs, cache_key)]
                      ELSE [ret |-> NoneVal, raised |-> exc, tier |-> "miss",
                            memory |-> mem1, files |-> fs]
                 ELSE IF is_cache_valid(t, content.entry, ttl)
                 THEN [ret |-> content.entry.data, raised |-> None, tier |-> "file",
                       memory |-> Put(mem1, cache_key, content.entry), files |-> fs]
                 ELSE [ret |-> NoneVal, raised |-> None, tier |-> "miss",
                       memory |-> mem1, files |-> Remove(fs, cache_key)]

\* A variant that caches every non-empty result, error marker or not.
cacheable_any(data) == Truthy(data)

\* data and not data.get('error'): the result is worth caching.
cacheable(data) == Truthy(data) /\ data.error = None

\* CacheManager.get_or_fetch at time t: `data` is what fetch_function returns if it
\* is called, `dt` the time the fetch takes.  fetched tells whether it was called.
cache_get_or_fetch(mem, fs, t, cache_key, data, dt, ttl) ==
    LET g == cache_get(mem, fs, t, cache_key, ttl)
    IN  IF g.raised # None
        THEN [ret |-> NoneVal, raised |-> g.raised, fetched |-> FALSE, stored |-> FALSE,
              time |-> t, memory |-> g.memory, files |-> g.files]
        ELSE IF g.ret # NoneVal
        THEN [ret |-> g.ret, raised |-> None, fetched |-> FALSE, stored |-> FALSE,
              time |-> t, memory |-> g.memory, files |-> g.files]
        ELSE IF cacheable(data)
        THEN LET s == cache_set(g.memory, g.files, t + dt, cache_key, data, ttl)
             IN [ret |-> data, raised |-> None, fetched |-> TRUE, stored |-> TRUE,
                 time |-> t + dt, memory |-> s.memory, files |-> s.files]
        ELSE [ret |-> data, raised |-> None, fetched |-> TRUE, stored |-> FALSE,
              time |-> t + dt, memory |-> g.memory, files |-> g.files]

\* What clear_expired does to a file's text: TRUE when it removes the file.
clear_expired_removes(t, content) ==
    \/ load_error(content) # None
    \/ ~is_cache_valid(t, content.entry, content.entry.ttl)

(***************************************************************************)
(* SpecCache: one CacheManager (default_ttl 3600) driven by its callers.    *)
(* The cache directory outlives the process, so the run may start with a    *)
(* file an earlier run wrote.                                               *)
(***************************************************************************)

\* The most operations one run invokes.
MaxCalls == 3

\* The times at which SpecCache's callers act.
CacheInstants == {0, 30, 3600}

\* The ttl arguments SpecCache's callers pass: none, 0 and 30 seconds.
CacheTtls == {NoneTtl, 0, 30}

\* The parameter dictionaries SpecCache's callers pass to get_or_fetch: the first
\* two hold the same items in different orders.
CacheQueries ==
    { << <<"type", "matches">>, <<"league", "PL">> >>,
      << <<"league", "PL">>, <<"type", "matches">> >>,
      << <<"type", "standings">>, <<"league", "PL">> >> }

CacheKeys == { generate_cache_key(q) : q \in CacheQueries }

\* Results without an error marker.
OkData == { [kind |-> "dict", error |-> None, payload |-> v] : v \in {"v1", "v2"} }

\* A result carrying an error marker.
ErrData == [kind |-> "dict", error |-> "No data available", payload |-> "v1"]

\* What a fetch function can return.
FetchResults == {[kind |-> "dict", error |-> None, payload |-> "v2"], ErrData, EmptyDict, NoneVal}

\* The directories a run of SpecCache can start with: empty, or holding the
\* file an earlier run wrote at time 0 for the matches query.
InitialFiles ==
    LET k == generate_cache_key(<< <<"type", "matches">>, <<"league", "PL">> >>)
        e == [data |-> [kind |-> "dict", error |-> None, payload |-> "v1"],
              timestamp |-> 0, ttl |-> 30]
    IN {EmptyMap, Put(EmptyMap, k, json_dump(e))}

\* A fetch result that is empty (None, {}) or carries an error marker.
failed_result(data) == data.kind # "dict" \/ data.error # None

\* The last operation was a get_or_fetch for cache_key whose fetch failed.
AfterFailedFetch(cache_key) ==
    /\ call.op = "get_or_fetch"
    /\ call.key = cache_key
    /\ call.fetched
    /\ failed_result(call.ret)

InitCache ==
    /\ now = 0
    /\ memory_cache = EmptyMap
    /\ files \in InitialFiles
    /\ default_ttl = 3600
    /\ last_request_time = EmptyMap
    /\ request_count = EmptyMap
    /\ returned = EmptyMap
    /\ calls = 0
    /\ call = [op |-> "init"]

\* Time passes between two operations.
CacheTick ==
    /\ \E t \in CacheInstants : t > now /\ now' = t
    /\ UNCHANGED <<memory_cache, files, default_ttl, calls, call>>
    /\ rateVarsUnchanged

\* A caller invokes set(cache_key, data, ttl).
CacheSet ==
    /\ calls < MaxCalls
    /\ \E cache_key \in CacheKeys, data \in OkData, ttl \in CacheTtls :
         LET s == cache_set(memory_cache, files, now, cache_key, data, ttl)
         IN /\ memory_cache' = s.memory
            /\ files' = s.files
            /\ call' = [op |-> "set", key |-> cache_key, ttl |-> ttl,
                        ret |-> NoneVal, raised |-> None, fetched |-> FALSE,
                        stored |-> TRUE, tier |-> "none", again |-> FALSE]
    /\ calls' = calls + 1
    /\ UNCHANGED <<now, default_ttl>>
    /\ rateVarsUnchanged

\* A caller invokes get(cache_key, ttl).
CacheGet ==
    /\ calls < MaxCalls
    /\ \E cache_key \in CacheKeys, ttl \in CacheTtls :
         LET g == cache_get(memory_cache, files, now, cache_key, ttl)
         IN /\ memory_cache' = g.memory
            /\ files' = g.files
            /\ call' = [op |-> "get", key |-> cache_key, ttl |-> ttl,
                        ret |-> g.ret, raised |-> g.raised, fetched |-> FALSE,
                        stored |-> FALSE, tier |-> g.tier, again |-> FALSE]
    /\ calls' = calls + 1
    /\ UNCHANGED <<now, default_ttl>>
    /\ rateVarsUnchanged

\* A caller invokes get_or_fetch(params, fetch_function, ttl); data is what
\* fetch_function returns when it is called.  again: the operation before was a
\* get_or_fetch for the same key whose fetch failed.
CacheGetOrFetch ==
    /\ calls < MaxCalls
    /\ \E params \in CacheQueries, data \in FetchResults, ttl \in CacheTtls :
         LET cache_key == generate_cache_key(params)
             r == cache_get_or_fetch(memory_cache, files, now, cache_key, data, 0, ttl)
         IN /\ memory_cache' = r.memory
            /\ files' = r.files
            /\ call' = [op |-> "get_or_fetch", key |-> cache_key, ttl |-> ttl,
                        ret |-> r.ret, raised |-> r.raised, fetched |-> r.fetched,
                        stored |-> r.stored, tier |-> "none",
                        again |-> AfterFailedFetch(cache_key)]
    /\ calls' = calls + 1
    /\ UNCHANGED <<now, default_ttl>>
    /\ rateVarsUnchanged

\* A caller invokes clear_expired().
CacheClearExpired ==
    /\ calls < MaxCalls
    /\ memory_cache' =
         [k \in { x \in DOMAIN memory_cache :
                    is_cache_valid(now, memory_cache[x], memory_cache[x].ttl) }
            |-> memory_cache[k]]
    /\ files' = [k \in { x \in DOMAIN files : ~clear_expired_removes(now, files[x]) }
                   |-> files[k]]
    /\ call' = [op |-> "clear_expired"]
    /\ calls' = calls + 1
    /\ UNCHANGED <<now, default_ttl>>
    /\ rateVarsUnchanged

\* A caller invokes clear_all().
CacheClearAll ==
    /\ calls < MaxCalls
    /\ memory_cache' = EmptyMap
    /\ files' = EmptyMap
    /\ call' = [op |-> "clear_all"]
    /\ calls' = calls + 1
    /\ UNCHANGED <<now, default_ttl>>
    /\ rateVarsUnchanged

\* The environment leaves a cache file with a text json_dump did not write
\* (a torn write, another program).
CorruptFile ==
    /\ calls < MaxCalls
    /\ \E cache_key \in CacheKeys, content \in CorruptContents :
         files' = Put(files, cache_key, content)
    /\ call' = [op |-> "corrupt_file"]
    /\ calls' = calls + 1
    /\ UNCHANGED <<now, memory_cache, default_ttl>>
    /\ rateVarsUnchanged

NextCache ==
    \/ CacheTick
    \/ CacheSet
    \/ CacheGet
    \/ CacheGetOrFetch
    \/ CacheClearExpired
    \/ CacheClearAll
    \/ CorruptFile

SpecCache == InitCache /\ [][NextCache]_vars

\* C2: after set(key, v, ttl), a get(key) without ttl override returns v exactly
\* while the entry's age is below the TTL stored with the entry, and absent from
\* then on.
C2_GetJudgesByEntryTtl ==
    [][ (/\ calls' # calls
         /\ call'.op = "get"
         /\ call.op = "set"
         /\ call'.key = call.key
         /\ call'.ttl = NoneTtl
         /\ call'.key \in DOMAIN memory_cache)
        => call'.ret = IF now - memory_cache[call'.key].timestamp
                            < memory_cache[call'.key].ttl
                       THEN memory_cache[call'.key].data
                       ELSE NoneVal ]_vars

\* A step that is a get_or_fetch whose fetch function ran and returned a result
\* with an error marker or an empty one.
FailedFetchStep ==
    /\ calls' # calls
    /\ call'.op = "get_or_fetch"
    /\ call'.fetched
    /\ failed_result(call'.ret)

\* A step that is the get_or_fetch right after a get_or_fetch for the same key
\* whose fetch failed.
RetryStep ==
    /\ calls' # calls
    /\ call'.op = "get_or_fetch"
    /\ call'.again

min_interval == 1

\* self.max_requests_per_minute (MAX_REQUESTS_PER_MINUTE, an option of config.py;
\* the runs take a cap small enough to be reached within their time window).
max_requests_per_minute == 2

\* The second of the clock at which a run of SpecRate starts.
RateStart == 57

\* No _rate_limit call is entered after this second.
RateHorizon == 63

\* The sources _make_request names.
Sources == {"football-data", "api-football"}

\* int(t // 60)
minute_of(t) == t \div 60

\* self.request_count[source] (an empty dict when the source is new).
counts_of(rc, source) == IF source \in DOMAIN rc THEN rc[source] ELSE EmptyMap

\* d.get(k, 0)
get0(d, k) == IF k \in DOMAIN d THEN d[k] ELSE 0

\* lines 48-51: the minute buckets older than the previous minute are dropped.
clean_old(counts, current_minute) ==
    [m \in { x \in DOMAIN counts : x >= current_minute - 1 } |-> counts[m]]

\* A limiter with one last request time for all the sources.
interval_sleep_any_source(last, t0, source) ==
    IF \E s \in DOMAIN last : t0 - last[s] < min_interval
    THEN LET s == CHOOSE x \in DOMAIN last : \A y \in DOMAIN last : last[x] >= last[y]
         IN  min_interval - (t0 - last[s])
    ELSE 0

\* A limiter that never sleeps for the interval.
interval_sleep_none(last, t0, source) == 0

\* lines 63-68: the sleep that keeps min_interval since the last request, computed
\* from the time t0 read on entry.
interval_sleep(last, t0, source) ==
    IF source \in DOMAIN last /\ t0 - last[source] < min_interval
    THEN min_interval - (t0 - last[source])
    ELSE 0

\* lines 55-58: the sleep until the next minute when the cap is reached.
cap_sleep(current_requests, t0) ==
    IF current_requests >= max_requests_per_minute THEN 60 - (t0 % 60) + 1 ELSE 0

\* DataSourceManager._rate_limit(source) entered at time t0 with state (last, rc):
\* the state after it and the time at which it returns.
rate_limit(last, rc, t0, source) ==
    LET minute0 == minute_of(t0)
        counts == clean_old(counts_of(rc, source), minute0)
        requests0 == get0(counts, minute0)
        s1 == cap_sleep(requests0, t0)
        \* lines 59-60: after the sleep the minute is read again, the count reset
        current_minute == IF s1 > 0 THEN minute_of(t0 + s1) ELSE minute0
        current_requests == IF s1 > 0 THEN 0 ELSE requests0
        s2 == interval_sleep(last, t0, source)
        t2 == t0 + s1 + s2
    IN [last |-> Put(last, source, t2),
        rc |-> Put(rc, source, Put(counts, current_minute, current_requests + 1)),
        time |-> t2,
        cap_slept |-> s1 > 0,
        interval_slept |-> s2 > 0]

InitRate ==
    /\ now = RateStart
    /\ memory_cache = EmptyMap
    /\ files = EmptyMap
    /\ default_ttl = 1800
    /\ last_request_time = EmptyMap
    /\ request_count = EmptyMap
    /\ returned = [s \in Sources |-> EmptyMap]
    /\ calls = 0
    /\ call = [op |-> "init"]

\* Time passes between two calls.
RateTick ==
    /\ now < RateHorizon
    /\ now' = now + 1
    /\ UNCHANGED <<calls, call>>
    /\ cacheVarsUnchanged
    /\ rateVarsUnchanged

\* _make_request calls _rate_limit(source); the call returns at r.time.
RateLimit ==
    /\ now <= RateHorizon
    /\ \E source \in Sources :
         LET r == rate_limit(last_request_time, request_count, now, source)
         IN /\ last_request_time' = r.last
            /\ request_count' = r.rc
            /\ now' = r.time
            /\ returned' = [returned EXCEPT ![source] =
                              Put(@, minute_of(r.time), get0(@, minute_of(r.time)) + 1)]
            /\ call' = [op |-> "_rate_limit", source |-> source, entered |-> now,
                        cap_slept |-> r.cap_slept, interval_slept |-> r.interval_slept]
    /\ calls' = calls + 1
    /\ cacheVarsUnchanged

NextRate ==
    \/ RateTick
    \/ RateLimit

SpecRate == InitRate /\ [][NextRate]_vars

\* C5: for every source and every calendar minute, at most
\* max_requests_per_minute _rate_limit calls return during that minute.
C5_ReturnsPerMinuteCapped ==
    \A s \in Sources : \A m \in DOMAIN returned[s] :
        returned[s][m] <= max_requests_per_minute

\* C6: the recorded request times of two consecutive _rate_limit calls for one
\* source are at least min_interval apart, whether or not the cap made the call sleep.
C6_MinIntervalBetweenRecordedTimes ==
    [][ (/\ calls' # calls
         /\ call'.op = "_rate_limit"
         /\ call'.source \in DOMAIN last_request_time)
        => last_request_time'[call'.source] - last_request_time[call'.source]
               >= min_interval ]_vars

\* C6 witness: a call that entered in the same second as the source's last
\* recorded request, with the cap reached, so that it slept for both.
C6_Witness ==
    /\ call.op = "_rate_limit"
    /\ call.cap_slept
    /\ call.interval_slept
    /\ last_request_time[call.source] - call.entered >= min_interval

(***************************************************************************)
(* DataSourceManager.get_matches / get_standings.                           *)
(* An adapter call (_get_matches_football_data, ...) is an input: it        *)
(* returns None, returns a result dictionary, or raises.  A result is a     *)
(* record with kind "dict", its list under matches or standings, and error  *)
(* for its 'error' item (None when it has none).                            *)
(***************************************************************************)

\* The adapters in the order the manager tries them, by the source name each
\* writes into its results.
priority_order_reversed == <<"api-football.com", "football-data.org">>

priority_order == <<"football-data.org", "api-football.com">>

AdapterNames == {"football-data.org", "api-football.com"}

\* Every status gets the live TTL.
ttl_for_status_all_live(status) == 30

\* lines 223-228: the cache lifetime of a get_matches result.
ttl_for_status(status) ==
    IF status = "live" THEN 30
    ELSE IF status = "finished" THEN 1800
    ELSE 180

\* line 415: the cache lifetime of a get_standings result.
standings_ttl == 1800

\* datetime.now().year
CurrentYear == "now.year"

\* lines 167-172: cache_params of get_matches.
matches_params(league, date, status) ==
    << <<"type", "matches">>, <<"league", league>>, <<"date", date>>,
       <<"status", status>> >>

\* lines 375-379: cache_params of get_standings.
standings_params(league, season) ==
    << <<"type", "standings">>, <<"league", league>>,
       <<"season", IF season = None THEN CurrentYear ELSE season>> >>

\* The list a result carries: result["matches"] or result["standings"].
rows(result) == IF "matches" \in DOMAIN result THEN result.matches ELSE result.standings

\* result and result.get("matches"): the adapter answered with at least one record.
has_records(outcome) == outcome.kind = "dict" /\ rows(outcome) # <<>>

\* The errors list after one adapter attempt: an exception appends
\* "<name>: <message>", an error marker appends "<name>: <error>", None and an
\* empty list append nothing.
errors_after(name, outcome, errors) ==
    IF outcome.kind = "raise" THEN Append(errors, <<name, outcome.msg>>)
    ELSE IF outcome.kind = "dict" /\ outcome.error # None
    THEN Append(errors, <<name, outcome.error>>)
    ELSE errors

\* One adapter invocation as the call log keeps it.
Invocation(name, args, outcome) == [adapter |-> name, args |-> args, outcome |-> outcome]

\* The two blocks "try football-data.org first / fallback to api-football.com":
\* out[name] is what adapter `name` does when called with args.
try_in_order(out, args, fetch_type) ==
    LET n1 == priority_order[1]
        n2 == priority_order[2]
        log1 == <<Invocation(n1, args, out[n1])>>
        log2 == Append(log1, Invocation(n2, args, out[n2]))
        errors1 == errors_after(n1, out[n1], <<>>)
        errors2 == errors_after(n2, out[n2], errors1)
    IN  IF has_records(out[n1])
        THEN [done |-> TRUE, ret |-> Put(out[n1], "fetch_type", fetch_type),
              errors |-> errors1, log |-> log1]
        ELSE IF has_records(out[n2])
        THEN [done |-> TRUE, ret |-> Put(out[n2], "fetch_type", fetch_type),
              errors |-> errors2, log |-> log2]
        ELSE [done |-> FALSE, ret |-> NoneVal, errors |-> errors2, log |-> log2]

\* lines 158-164 and 214-220: the explicit empty result.
no_data(list_key, message, errors, fetch_type) ==
    Put([kind |-> "dict", source |-> "none", error |-> message,
         detailed_errors |-> errors, fetch_type |-> fetch_type],
        list_key, <<>>)

\* [m for m in result["matches"] if m.get("date") == date]
RECURSIVE filter_by_date(_, _)
filter_by_date(matches, date) ==
    IF matches = <<>> THEN <<>>
    ELSE IF Head(matches).date = date
         THEN <<Head(matches)>> \o filter_by_date(Tail(matches), date)
         ELSE filter_by_date(Tail(matches), date)

\* get_matches with force_live, lines 132-164.
get_matches_live(league, date, status, out) ==
    LET r == try_in_order(out, <<league, date, status>>, "live_fetch")
    IN  IF r.done THEN [ret |-> r.ret, log |-> r.log]
        ELSE [ret |-> no_data("matches", "No live data available from any source",
                              r.errors, "live_fetch_failed"),
              log |-> r.log]

\* fetch_matches_data, lines 174-220: broad is what the primary adapter does when
\* called without league and date.
fetch_matches_data(league, date, status, out, broad) ==
    LET r == try_in_order(out, <<league, date, status>>, "cached")
        broadened == date # None /\ league = None
        log3 == Append(r.log, Invocation("football-data.org", <<None, None, status>>, broad))
        filtered == IF has_records(broad) THEN filter_by_date(broad.matches, date) ELSE <<>>
        errors3 == IF broad.kind = "raise"
                   THEN Append(r.errors, <<"fallback search", broad.msg>>)
                   ELSE r.errors
    IN  IF r.done THEN [ret |-> r.ret, log |-> r.log]
        ELSE IF ~broadened
        THEN [ret |-> no_data("matches", "No data available from any source",
                              r.errors, "cached"),
              log |-> r.log]
        ELSE IF filtered # <<>>
        THEN [ret |-> [kind |-> "dict", matches |-> filtered,
                       source |-> "football-data.org (filtered)",
                       total |-> broad.total, error |-> None, fetch_type |-> "cached"],
              log |-> log3]
        ELSE [ret |-> no_data("matches", "No data available from any source",
                              errors3, "cached"),
              log |-> log3]

\* A manager call through the cache: the outcome of get_or_fetch, with the
\* adapter invocations the fetch function made when it ran.
through_cache(mem, fs, t, params, f, ttl) ==
    LET g == cache_get_or_fetch(mem, fs, t, generate_cache_key(params), f.ret, 0, ttl)
    IN [ret |-> g.ret, raised |-> g.raised,
        log |-> IF g.fetched THEN f.log ELSE <<>>,
        memory |-> g.memory, files |-> g.files]

\* A manager call that bypasses the cache.
bypassing_cache(mem, fs, f) ==
    [ret |-> f.ret, raised |-> None, log |-> f.log, memory |-> mem, files |-> fs]

\* A get_matches that ignores force_live.
get_matches_always_cached(mem, fs, t, league, date, status, force_live, out, broad) ==
    through_cache(mem, fs, t, matches_params(league, date, status),
                  fetch_matches_data(league, date, status, out, broad),
                  ttl_for_status(status))

\* DataSourceManager.get_matches at time t on cache tiers (mem, fs).
get_matches(mem, fs, t, league, date, status, force_live, out, broad) ==
    IF force_live
    THEN bypassing_cache(mem, fs, get_matches_live(league, date, status, out))
    ELSE through_cache(mem, fs, t, matches_params(league, date, status),
                       fetch_matches_data(league, date, status, out, broad),
                       ttl_for_status(status))

\* get_standings with force_live, lines 340-372.
get_standings_live(league, season, out) ==
    LET r == try_in_order(out, <<league, season>>, "live_fetch")
    IN  IF r.done THEN [ret |-> r.ret, log |-> r.log]
        ELSE [ret |-> no_data("standings", "No live standings data available",
                              r.errors, "live_fetch_failed"),
              log |-> r.log]

\* fetch_standings_data, lines 381-412: season is cache_params['season'].
fetch_standings_data(league, season, out) ==
    LET r == try_in_order(out, <<league, season>>, "cached")
    IN  IF r.done THEN [ret |-> r.ret, log |-> r.log]
        ELSE [ret |-> no_data("standings", "No standings data available",
                              r.errors, "cached"),
              log |-> r.log]

\* A get_standings that caches its result for 180 s, as get_matches does by default.
get_standings_short_ttl(mem, fs, t, league, season, force_live, out) ==
    IF force_live
    THEN bypassing_cache(mem, fs, get_standings_live(league, season, out))
    ELSE through_cache(mem, fs, t, standings_params(league, season),
                       fetch_standings_data(league,
                                            IF season = None THEN CurrentYear ELSE season,
                                            out),
                       180)

\* DataSourceManager.get_standings at time t on cache tiers (mem, fs).
get_standings(mem, fs, t, league, season, force_live, out) ==
    IF force_live
    THEN bypassing_cache(mem, fs, get_standings_live(league, season, out))
    ELSE through_cache(mem, fs, t, standings_params(league, season),
                       fetch_standings_data(league,
                                            IF season = None THEN CurrentYear ELSE season,
                                            out),
                       standings_ttl)

(***************************************************************************)
(* The callers of one DataSourceManager (its CacheManager has default_ttl   *)
(* 1800).  A run repeats one get_matches query, chosen at the start, and    *)
(* the get_standings query of one league, with and without force_live.      *)
(*   SpecMgr    sequences of calls over time, from an empty cache, with     *)
(*              adapters that answer with records or with None              *)
(*   SpecFetch  a single call with every adapter outcome, from each state   *)
(*              the cache tiers can be in for the query's key               *)
(***************************************************************************)

\* The most manager calls one run of SpecMgr makes.
MgrCalls == 3

\* The times at which SpecMgr's callers act.
MgrInstants == {0, 30, 180, 1800}

\* The get_matches queries (league, date, status) a run can repeat.
MgrQueries ==
    { <<"PL", "2024-10-01", "finished">>,
      <<None, "2024-10-01", "live">>,
      <<None, None, "all">> }

\* The get_standings query (league, season) of every run.
StandingsQuery == <<"PL", None>>

\* Two MatchRecords, on different dates.
Match1 == [id |-> 1, date |-> "2024-10-01"]

Match2 == [id |-> 2, date |-> "2024-10-02"]

\* Two StandingsRows.
Row1 == [position |-> 1, team |-> "A"]

Row2 == [position |-> 2, team |-> "B"]

\* An adapter call that raises.
Raises == [kind |-> "raise", msg |-> "boom"]

\* The result dictionary of the matches adapter named n holding matches ms.
MatchesResult(n, ms) ==
    [kind |-> "dict", matches |-> ms, source |-> n, total |-> Len(ms), error |-> None]

\* The result dictionary of the standings adapter named n holding rows st.
StandingsResult(n, st) ==
    [kind |-> "dict", standings |-> st, source |-> n, league |-> "Premier League",
     season |-> "2024", error |-> None]

\* What a matches adapter named n can do when called.
MatchOutcomes(n) ==
    {NoneVal, Raises}
    \cup { MatchesResult(n, ms) : ms \in {<<>>, <<Match2>>, <<Match1, Match2>>} }

\* What a standings adapter named n can do when called.
StandingsOutcomes(n) ==
    {NoneVal, Raises}
    \cup { StandingsResult(n, st) : st \in {<<>>, <<Row1>>, <<Row1, Row2>>} }

\* The adapter outcomes of SpecMgr: records, or None.
MgrMatchOutcomes(n) == {NoneVal, MatchesResult(n, <<Match1, Match2>>)}

MgrStandingsOutcomes(n) == {NoneVal, StandingsResult(n, <<Row1, Row2>>)}

\* The cache key of the run's get_matches query q.
matches_key(q) == generate_cache_key(matches_params(q[1], q[2], q[3]))

\* The cache key of the run's get_standings query.
standings_key == generate_cache_key(standings_params(StandingsQuery[1], StandingsQuery[2]))

\* Only the outcomes of adapter calls that are made are drawn: the secondary
\* adapter is not called when the primary answers with records, the broadened
\* query only on the cached path of a query with a date and no league.
DrawnMatches(q, force_live, o1, o2, broad) ==
    /\ has_records(o1) => o2 = NoneVal
    /\ (\/ force_live
        \/ has_records(o1)
        \/ has_records(o2)
        \/ ~(q[2] # None /\ q[1] = None)) => broad = NoneVal

DrawnStandings(o1, o2) == has_records(o1) => o2 = NoneVal

\* What the adapters do, by name.
Outcomes(o1, o2) ==
    [n \in AdapterNames |-> IF n = "football-data.org" THEN o1 ELSE o2]

\* A caller invokes get_matches(league, date, status, force_live) with the run's
\* query.  fresh keeps the last result with records that a cached call fetched,
\* and when.
MatchesCall(force_live, out, broad) ==
    LET q == call.query
        r == get_matches(memory_cache, files, now, q[1], q[2], q[3],
                         force_live, out, broad)
        fetchedRecords == /\ ~force_live
                          /\ r.raised = None
                          /\ r.log # <<>>
                          /\ rows(r.ret) # <<>>
    IN /\ memory_cache' = r.memory
       /\ files' = r.files
       /\ call' = [op |-> "get_matches", query |-> q, force_live |-> force_live,
                   ret |-> r.ret, raised |-> r.raised, log |-> r.log,
                   fresh |-> IF fetchedRecords
                             THEN [ret |-> r.ret, at |-> now]
                             ELSE call.fresh]
       /\ calls' = calls + 1
       /\ UNCHANGED <<now, default_ttl>>
       /\ rateVarsUnchanged

\* A caller invokes get_standings(league, season, force_live).
StandingsCall(force_live, out) ==
    LET r == get_standings(memory_cache, files, now, StandingsQuery[1],
                           StandingsQuery[2], force_live, out)
    IN /\ memory_cache' = r.memory
       /\ files' = r.files
       /\ call' = [op |-> "get_standings", query |-> call.query,
                   force_live |-> force_live,
                   ret |-> r.ret, raised |-> r.raised, log |-> r.log,
                   fresh |-> call.fresh]
       /\ calls' = calls + 1
       /\ UNCHANGED <<now, default_ttl>>
       /\ rateVarsUnchanged

InitMgr ==
    /\ now = 0
    /\ memory_cache = EmptyMap
    /\ files = EmptyMap
    /\ call \in { [op |-> "init", query |-> q, fresh |-> NoneVal] : q \in MgrQueries }
    /\ default_ttl = 1800
    /\ last_request_time = EmptyMap
    /\ request_count = EmptyMap
    /\ returned = EmptyMap
    /\ calls = 0

\* Time passes between two calls.
MgrTick ==
    /\ \E t \in MgrInstants : t > now /\ now' = t
    /\ UNCHANGED <<memory_cache, files, default_ttl, calls, call>>
    /\ rateVarsUnchanged

GetMatches ==
    /\ calls < MgrCalls
    /\ \E force_live \in BOOLEAN,
          o1 \in MgrMatchOutcomes("football-data.org"),
          o2 \in MgrMatchOutcomes("api-football.com"),
          broad \in MgrMatchOutcomes("football-data.org") :
         /\ DrawnMatches(call.query, force_live, o1, o2, broad)
         /\ MatchesCall(force_live, Outcomes(o1, o2), broad)

GetStandings ==
    /\ calls < MgrCalls
    /\ \E force_live \in BOOLEAN,
          o1 \in MgrStandingsOutcomes("football-data.org"),
          o2 \in MgrStandingsOutcomes("api-football.com") :
         /\ DrawnStandings(o1, o2)
         /\ StandingsCall(force_live, Outcomes(o1, o2))

NextMgr ==
    \/ MgrTick
    \/ GetMatches
    \/ GetStandings

SpecMgr == InitMgr /\ [][NextMgr]_vars

\* The time of SpecFetch's single call.
FetchTime == 1800

\* A result an earlier cached call stored.
StoredMatches ==
    Put(MatchesResult("football-data.org", <<Match1>>), "fetch_type", "cached")

StoredStandings ==
    Put(StandingsResult("football-data.org", <<Row1>>), "fetch_type", "cached")

\* The states the tiers can be in for one key at FetchTime, as (memory, files):
\* no entry; an entry in both tiers, stored just now or 1800 s ago; an entry an
\* earlier run left in the file only; an unreadable file.
TierStates(k, data, ttl) ==
    LET fresh == [data |-> data, timestamp |-> FetchTime, ttl |-> ttl]
        stale == [data |-> data, timestamp |-> 0, ttl |-> ttl]
    IN  { <<EmptyMap, EmptyMap>>,
          <<Put(EmptyMap, k, fresh), Put(EmptyMap, k, json_dump(fresh))>>,
          <<Put(EmptyMap, k, stale), Put(EmptyMap, k, json_dump(stale))>>,
          <<EmptyMap, Put(EmptyMap, k, json_dump(fresh))>> }
        \cup { <<EmptyMap, Put(EmptyMap, k, c)>> : c \in CorruptContents }

\* The tiers holding both m (for one key) and s (for another).
Both(m, s) == <<[k \in DOMAIN m[1] \cup DOMAIN s[1] |->
                    IF k \in DOMAIN m[1] THEN m[1][k] ELSE s[1][k]],
                [k \in DOMAIN m[2] \cup DOMAIN s[2] |->
                    IF k \in DOMAIN m[2] THEN m[2][k] ELSE s[2][k]]>>

InitFetch ==
    /\ now = FetchTime
    /\ \E q \in MgrQueries :
         /\ call = [op |-> "init", query |-> q, fresh |-> NoneVal]
         /\ \E m \in TierStates(matches_key(q), StoredMatches, ttl_for_status(q[3])),
               s \in TierStates(standings_key, StoredStandings, standings_ttl) :
              /\ memory_cache = Both(m, s)[1]
              /\ files = Both(m, s)[2]
    /\ default_ttl = 1800
    /\ last_request_time = EmptyMap
    /\ request_count = EmptyMap
    /\ returned = EmptyMap
    /\ calls = 0

OneGetMatches ==
    /\ call.op = "init"
    /\ \E force_live \in BOOLEAN,
          o1 \in MatchOutcomes("football-data.org"),
          o2 \in MatchOutcomes("api-football.com"),
          broad \in MatchOutcomes("football-data.org") :
         /\ DrawnMatches(call.query, force_live, o1, o2, broad)
         /\ MatchesCall(force_live, Outcomes(o1, o2), broad)

OneGetStandings ==
    /\ call.op = "init"
    /\ \E force_live \in BOOLEAN,
          o1 \in StandingsOutcomes("football-data.org"),
          o2 \in StandingsOutcomes("api-football.com") :
         /\ DrawnStandings(o1, o2)
         /\ StandingsCall(force_live, Outcomes(o1, o2))

NextFetch ==
    \/ OneGetMatches
    \/ OneGetStandings

SpecFetch == InitFetch /\ [][NextFetch]_vars

\* C4: once a get_matches call through the cache has fetched a result with at
\* least one record, every identical call through the cache made before the
\* status's TTL (live 30 s, finished 1800 s, otherwise 180 s) has elapsed
\* returns that same result and invokes no adapter.
C4_RepeatWithinTtlServedFromCache ==
    [][ (/\ calls' # calls
         /\ call'.op = "get_matches"
         /\ ~call'.force_live
         /\ call.fresh # NoneVal
         /\ now - call.fresh.at < (IF call.query[3] = "live" THEN 30
                                   ELSE IF call.query[3] = "finished" THEN 1800
                                   ELSE 180))
        => (/\ call'.raised = None
            /\ call'.ret = call.fresh.ret
            /\ call'.log = <<>>) ]_vars

\* C4 witness: a get_matches call answered, without any adapter invocation, with
\* the result an identical call fetched earlier.
C4_Witness ==
    /\ call.op = "get_matches"
    /\ ~call.force_live
    /\ call.fresh # NoneVal
    /\ now > call.fresh.at
    /\ call.log = <<>>
    /\ call.ret = call.fresh.ret
    /\ Len(call.ret.matches) >= 1

\* C7: when the primary adapter returned None and the secondary adapter n >= 1
\* matches, get_matches returns exactly those matches with the secondary's
\* source name; and the secondary adapter is invoked only after an invocation
\* of the primary that yielded no records.
C7_SecondaryOnlyAfterPrimary ==
    (call.op = "get_matches" /\ call.raised = None)
        => /\ \A i, j \in 1..Len(call.log) :
                (/\ call.log[i].adapter = "football-data.org"
                 /\ call.log[i].outcome = NoneVal
                 /\ call.log[j].adapter = "api-football.com"
                 /\ has_records(call.log[j].outcome))
                => (/\ call.ret.matches = call.log[j].outcome.matches
                    /\ call.ret.source = "api-football.com"
                    /\ call.ret.total = Len(call.log[j].outcome.matches))
           /\ \A j \in 1..Len(call.log) :
                call.log[j].adapter = "api-football.com"
                => \E i \in 1..(j - 1) :
                      /\ call.log[i].adapter = "football-data.org"
                      /\ ~has_records(call.log[i].outcome)

\* C7 witness: the primary adapter returned None, the secondary two matches, and
\* the call returned those two.
C7_Witness ==
    /\ call.op = "get_matches"
    /\ call.raised = None
    /\ Len(call.log) = 2
    /\ call.log[1].adapter = "football-data.org"
    /\ call.log[1].outcome = NoneVal
    /\ call.log[2].adapter = "api-football.com"
    /\ call.ret.matches = <<Match1, Match2>>
    /\ call.ret.source = "api-football.com"

\* C8: get_matches and get_standings never raise: whatever the adapters do and
\* whatever the cache tiers hold, they return a result with a matches/standings
\* list, a source and a fetch_type.
C8_NeverRaises ==
    (call.op \in {"get_matches", "get_standings"})
        => /\ call.raised = None
           /\ call.ret.kind = "dict"
           /\ (IF call.op = "get_matches" THEN "matches" ELSE "standings")
                  \in DOMAIN call.ret
           /\ "source" \in DOMAIN call.ret
           /\ "fetch_type" \in DOMAIN call.ret

\* C9: when no adapter yields records, the result is the explicit empty result
\* (empty list, source "none", an error message) and its detailed_errors holds
\* an error string for every adapter that raised or returned None.
C9_DetailedErrorsPerFailedAdapter ==
    (/\ call.op \in {"get_matches", "get_standings"}
     /\ call.raised = None
     /\ call.log # <<>>
     /\ \A i \in 1..Len(call.log) : ~has_records(call.log[i].outcome))
        => /\ rows(call.ret) = <<>>
           /\ call.ret.source = "none"
           /\ call.ret.error # None
           /\ \A i \in 1..Len(call.log) :
                call.log[i].outcome.kind \in {"raise", "None"}
                => \E e \in 1..Len(call.ret.detailed_errors) :
                      call.ret.detailed_errors[e][1]
                          = (IF i = 3 THEN "fallback search" ELSE call.log[i].adapter)

\* C10: a get_matches or get_standings call with force_live leaves the memory
\* tier and the file tier unchanged, invokes the adapters whatever the cache
\* holds, and tags its result live_fetch when it has records, live_fetch_failed
\* when it has none.
C10_ForceLiveBypassesCache ==
    [][ (/\ calls' # calls
         /\ call'.op \in {"get_matches", "get_standings"}
         /\ call'.force_live)
        => (/\ memory_cache' = memory_cache
            /\ files' = files
            /\ call'.raised = None
            /\ call'.log # <<>>
            /\ call'.ret.fetch_type = (IF rows(call'.ret) # <<>>
                                       THEN "live_fetch"
                                       ELSE "live_fetch_failed")) ]_vars

\* C10 witness: a force_live get_matches call went to the adapters although both
\* tiers held a fresh entry for the query, and left that entry in place.
C10_Witness ==
    /\ call.op = "get_matches"
    /\ call.force_live
    /\ call.log # <<>>
    /\ call.ret.fetch_type = "live_fetch"
    /\ matches_key(call.query) \in DOMAIN memory_cache
    /\ matches_key(call.query) \in DOMAIN files
    /\ now - memory_cache[matches_key(call.query)].timestamp
           < ttl_for_status(call.query[3])
    /\ memory_cache[matches_key(call.query)].data # call.ret

C12_CorruptEntryIsMissAndDeleted ==
    [][ (/\ calls' # calls
         /\ call'.op \in {"get", "get_or_fetch"}
         /\ call'.key \notin DOMAIN memory_cache
         /\ call'.key \in DOMAIN files
         /\ files[call'.key] \in CorruptContents)
        => (/\ call'.raised = None
            /\ call'.op = "get" => (/\ call'.ret = NoneVal
                                    /\ call'.key \notin DOMAIN files')) ]_vars

(***************************************************************************)
(* DataSourceManager._make_request: one _rate_limit, then up to            *)
(* RETRY_ATTEMPTS attempts of requests.get.  What the server (or the        *)
(* network) does at each attempt is an input.  SpecReq: the requests of one *)
(* source, one after the other.                                             *)
(***************************************************************************)

\* max_retries = RETRY_ATTEMPTS
RETRY_ATTEMPTS == 3

\* retry_delay = RETRY_DELAY, in seconds
RETRY_DELAY == 2

\* The most _make_request calls one run of SpecReq makes.
MaxRequests == 2

\* The seconds of the clock at which a run of SpecReq can start.
ReqStarts == {0, 58}

\* What one attempt of requests.get(...) can meet: a status code (200 with a body
\* that parses, 200 with a body that is no JSON, 429, 403, 404, 500 for every
\* other status) or an exception of requests.
ReqOutcomes ==
    {"200", "200_malformed", "429", "403", "404", "500",
     "Timeout", "ConnectionError", "RequestException"}

\* response.json() of a 200 response whose body parses.
Body == [kind |-> "dict", error |-> None, payload |-> "body"]


\* The sleeps of lines 89, 100, 107, 113: base * (attempt + 1).
backoff(base, attempt) == base * (attempt + 1)

\* An attempt that retries after 403 and 404 as after any other status.
attempt_step_retry_all(outcome, attempt) ==
    CASE outcome = "200" -> [done |-> TRUE, ret |-> Body, sleep |-> 0]
      [] outcome = "429" -> [done |-> FALSE, ret |-> NoneVal, sleep |-> backoff(60, attempt)]
      [] outcome \in {"200_malformed", "RequestException"} ->
            [done |-> TRUE, ret |-> NoneVal, sleep |-> 0]
      [] OTHER ->
            IF attempt < RETRY_ATTEMPTS - 1
            THEN [done |-> FALSE, ret |-> NoneVal, sleep |-> backoff(RETRY_DELAY, attempt)]
            ELSE [done |-> TRUE, ret |-> NoneVal, sleep |-> 0]

\* One pass of the loop body, lines 82-121, at 0-based index attempt: whether the
\* call returns (done) and what, or the sleep before `continue`.
attempt_step(outcome, attempt) ==
    CASE outcome = "200" -> [done |-> TRUE, ret |-> Body, sleep |-> 0]
      [] outcome = "429" -> [done |-> FALSE, ret |-> NoneVal, sleep |-> backoff(60, attempt)]
      [] outcome \in {"403", "404", "200_malformed", "RequestException"} ->
            [done |-> TRUE, ret |-> NoneVal, sleep |-> 0]
      [] outcome \in {"500", "Timeout", "ConnectionError"} ->
            IF attempt < RETRY_ATTEMPTS - 1
            THEN [done |-> FALSE, ret |-> NoneVal, sleep |-> backoff(RETRY_DELAY, attempt)]
            ELSE [done |-> TRUE, ret |-> NoneVal, sleep |-> 0]

\* One attempt as the call log keeps it: its index, what it met, when the
\* request was sent and the sleep that followed.
Attempt(attempt, outcome, t, sleep) ==
    [attempt |-> attempt, outcome |-> outcome, sent_at |-> t, slept |-> sleep]

\* A loop that runs one attempt more than max_retries.
RECURSIVE attempts_one_more(_, _, _, _)
attempts_one_more(outs, attempt, t, log) ==
    IF attempt >= RETRY_ATTEMPTS + 1
    THEN [ret |-> NoneVal, log |-> log, time |-> t]
    ELSE LET o == outs[IF attempt < RETRY_ATTEMPTS THEN attempt + 1 ELSE RETRY_ATTEMPTS]
             a == attempt_step(o, IF attempt < RETRY_ATTEMPTS THEN attempt ELSE 0)
             l == Append(log, Attempt(attempt, o, t, a.sleep))
         IN  IF a.done THEN [ret |-> a.ret, log |-> l, time |-> t]
             ELSE attempts_one_more(outs, attempt + 1, t + a.sleep, l)

\* for attempt in range(max_retries), lines 81-123, from index attempt at time t:
\* outs[i] is what attempt i - 1 meets.  The loop left without a return gives None.
RECURSIVE attempts(_, _, _, _)
attempts(outs, attempt, t, log) ==
    IF attempt >= RETRY_ATTEMPTS
    THEN [ret |-> NoneVal, log |-> log, time |-> t]
    ELSE LET a == attempt_step(outs[attempt + 1], attempt)
             l == Append(log, Attempt(attempt, outs[attempt + 1], t, a.sleep))
         IN  IF a.done THEN [ret |-> a.ret, log |-> l, time |-> t]
             ELSE attempts(outs, attempt + 1, t + a.sleep, l)

\* DataSourceManager._make_request(url, headers, params, source) entered at t0.
make_request(last, rc, t0, source, outs) ==
    LET r == rate_limit(last, rc, t0, source)
        a == attempts(outs, 0, r.time, <<>>)
    IN [ret |-> a.ret, raised |-> None, log |-> a.log, acquired_at |-> r.time,
        time |-> a.time, last |-> r.last, rc |-> r.rc]

\* Only the outcomes of attempts that are made are drawn.
RECURSIVE DrawnAttempts(_, _)
DrawnAttempts(outs, attempt) ==
    IF attempt >= RETRY_ATTEMPTS THEN TRUE
    ELSE IF attempt_step(outs[attempt + 1], attempt).done
    THEN \A i \in (attempt + 2)..RETRY_ATTEMPTS : outs[i] = "200"
    ELSE DrawnAttempts(outs, attempt + 1)

InitReq ==
    /\ now \in ReqStarts
    /\ memory_cache = EmptyMap
    /\ files = EmptyMap
    /\ default_ttl = 1800
    /\ last_request_time = EmptyMap
    /\ request_count = EmptyMap
    /\ returned = [s \in Sources |-> EmptyMap]
    /\ calls = 0
    /\ call = [op |-> "init"]

\* An adapter calls _make_request(url, headers, params, "football-data").
MakeRequest ==
    /\ calls < MaxRequests
    /\ \E outs \in [1..RETRY_ATTEMPTS -> ReqOutcomes] :
         /\ DrawnAttempts(outs, 0)
         /\ LET source == "football-data"
                r == make_request(last_request_time, request_count, now, source, outs)
            IN /\ last_request_time' = r.last
               /\ request_count' = r.rc
               /\ now' = r.time
               /\ returned' = [returned EXCEPT ![source] =
                                 Put(@, minute_of(r.acquired_at),
                                     get0(@, minute_of(r.acquired_at)) + 1)]
               /\ call' = [op |-> "_make_request", source |-> source, entered |-> now,
                           acquired_at |-> r.acquired_at,
                           ret |-> r.ret, raised |-> r.raised, log |-> r.log]
    /\ calls' = calls + 1
    /\ cacheVarsUnchanged

NextReq == MakeRequest

SpecReq == InitReq /\ [][NextReq]_vars

\* C13: an attempt that receives HTTP 403, HTTP 404 or a 200 whose body is no
\* JSON is the last attempt of its call, whatever its index: no sleep follows
\* it and the call returns None.
C13_NoRetryOn403_404_Malformed ==
    call.op = "_make_request"
        => \A i \in 1..Len(call.log) :
              call.log[i].outcome \in {"403", "404", "200_malformed"}
              => /\ i = Len(call.log)
                 /\ call.log[i].slept = 0
                 /\ call.ret = NoneVal
                 /\ call.raised = None

\* C13 witness: the third attempt of a call, after two retried failures, received
\* HTTP 404 and ended the call.
C13_Witness ==
    /\ call.op = "_make_request"
    /\ Len(call.log) = 3
    /\ call.log[3].outcome = "404"
    /\ call.log[3].slept = 0
    /\ call.log[2].slept > 0
    /\ call.ret = NoneVal

\* C14: a _make_request call issues at most RETRY_ATTEMPTS requests and does not
\* raise; when no attempt receives a 200 it returns None, whatever mix of 429,
\* other statuses, timeouts and connection failures the attempts met; the first
\* attempt that receives a 200 with a JSON body ends the call, which returns
\* the parsed body.
C14_BoundedAttemptsNullOnExhaustion ==
    call.op = "_make_request"
        => /\ Len(call.log) >= 1
           /\ Len(call.log) <= RETRY_ATTEMPTS
           /\ call.raised = None
           /\ (\A i \in 1..Len(call.log) :
                 call.log[i].outcome \notin {"200", "200_malformed"})
              => call.ret = NoneVal
           /\ \A i \in 1..Len(call.log) :
                 call.log[i].outcome = "200"
                 => (i = Len(call.log) /\ call.ret = Body)

\* C14 witness: a call whose three attempts met a 429, a timeout and a
\* connection failure returned None.
C14_Witness ==
    /\ call.op = "_make_request"
    /\ Len(call.log) = RETRY_ATTEMPTS
    /\ call.log[1].outcome = "429"
    /\ call.log[2].outcome = "Timeout"
    /\ call.log[3].outcome = "ConnectionError"
    /\ call.ret = NoneVal
    /\ call.raised = None

(***************************************************************************)
(* BatchDataFetcher.get_comprehensive_league_data.  What its data_manager   *)
(* answers to each sub-query (a result dictionary, or an exception) is an   *)
(* input.  A date is the number of its day: the order of the numbers is the *)
(* order of the '%Y-%m-%d' strings.  SpecBatch: one call on an empty cache. *)
(***************************************************************************)

\* range(0, 15): the days scanned for finished matches.
DaysScanned == 15

\* recent_matches[:20]
RecentCap == 20

\* upcoming_result.get("matches", [])[:10]
UpcomingCap == 10

\* ttl=1800 of the composite's cache entry.
comprehensive_ttl == 1800

\* The most matches the data_manager returns for one day.
MaxPerDay == 3

\* time.time() at the call of SpecBatch: one hour into day 20.
BatchStart == 1731600

\* datetime.now().strftime('%Y-%m-%d') at time t.
date_of(t) == t \div 86400

\* s[:n]
Take(s, n) == SubSeq(s, 1, IF Len(s) < n THEN Len(s) ELSE n)

\* lines 193-198: cache_params of the composite.
comprehensive_params(league, season, date) ==
    << <<"type", "comprehensive_league">>, <<"league", league>>,
       <<"season", season>>, <<"date", date>> >>

\* What data_manager.get_matches returns when it found matches ms.
SubMatches(ms) == Put(MatchesResult("football-data.org", ms), "fetch_type", "cached")

\* What data_manager.get_matches returns when no source had data.
SubNoMatches == no_data("matches", "No data available from any source", <<>>, "cached")

\* What data_manager.get_standings returns: rows, or the explicit empty result.
SubStandings == Put(StandingsResult("football-data.org", <<Row1, Row2>>), "fetch_type", "cached")

SubNoStandings == no_data("standings", "No standings data available", <<>>, "cached")

\* The matches of the results of the scanned days, in the order of the scan
\* (lines 213-217); a result without matches adds nothing.
RECURSIVE merge_days(_)
merge_days(recent) ==
    IF recent = <<>> THEN <<>>
    ELSE (IF rows(Head(recent)) # <<>> THEN rows(Head(recent)) ELSE <<>>)
         \o merge_days(Tail(recent))

\* x put into s, sorted by date ascending, behind the matches of its date.
RECURSIVE insert_asc(_, _)
insert_asc(x, s) ==
    IF s = <<>> THEN <<x>>
    ELSE IF Head(s).date <= x.date THEN <<Head(s)>> \o insert_asc(x, Tail(s))
    ELSE <<x>> \o s

\* A sort without reverse=True.
RECURSIVE sort_by_date_asc(_)
sort_by_date_asc(s) ==
    IF s = <<>> THEN <<>>
    ELSE insert_asc(s[Len(s)], sort_by_date_asc(SubSeq(s, 1, Len(s) - 1)))

\* x put into s, sorted by date descending, behind the matches of its date.
RECURSIVE insert_desc(_, _)
insert_desc(x, s) ==
    IF s = <<>> THEN <<x>>
    ELSE IF Head(s).date >= x.date THEN <<Head(s)>> \o insert_desc(x, Tail(s))
    ELSE <<x>> \o s

\* recent_matches.sort(key=lambda x: x.get("date", ""), reverse=True): a stable
\* sort, matches of one date keep their order.
RECURSIVE sort_by_date_desc(_)
sort_by_date_desc(s) ==
    IF s = <<>> THEN <<>>
    ELSE insert_desc(s[Len(s)], sort_by_date_desc(SubSeq(s, 1, Len(s) - 1)))

\* fetch_comprehensive_data at time t, lines 200-241: recent[i] is the answer to
\* the query for the day i - 1 days back, upcoming, standings and live the
\* answers to the three other sub-queries.  An exception of a sub-query ends
\* the function with what data it had so far.
fetch_comprehensive_data(league, season, t, recent, upcoming, standings, live) ==
    LET d1 == Put(EmptyMap, "recent_matches",
                  Take(sort_by_date_desc(merge_days(recent)), RecentCap))
        d2 == Put(d1, "upcoming_matches", Take(upcoming.matches, UpcomingCap))
        d3 == Put(d2, "standings", standings.standings)
        d4 == Put(d3, "live_matches", live.matches)
        results(data, success, error) ==
            [kind |-> "dict", league |-> league, season |-> season, fetched_at |-> t,
             data |-> data, success |-> success, error |-> error]
    IN  IF \E i \in 1..Len(recent) : recent[i].kind = "raise"
        THEN results(EmptyMap, FALSE, Raises.msg)
        ELSE IF upcoming.kind = "raise" THEN results(d1, FALSE, Raises.msg)
        ELSE IF standings.kind = "raise" THEN results(d2, FALSE, Raises.msg)
        ELSE IF live.kind = "raise" THEN results(d3, FALSE, Raises.msg)
        ELSE results(d4, TRUE, None)

\* BatchDataFetcher.get_comprehensive_league_data at time t on tiers (mem, fs).
get_comprehensive_league_data(mem, fs, t, league, season, recent, upcoming, standings, live) ==
    cache_get_or_fetch(mem, fs, t,
                       generate_cache_key(comprehensive_params(league, season, date_of(t))),
                       fetch_comprehensive_data(league, season, t, recent, upcoming,
                                                standings, live),
                       0, comprehensive_ttl)

\* The sets of days (counted back from today) on which matches were played.
DaySets == { 0..(DaysScanned - 1), {0, 1, 2}, {12, 13, 14}, {0, 7, 14} }

\* The answers to the 15 day queries when the days of S have matches, a on its
\* even days and b on its odd ones; match j of a day is dated spread * j days
\* before that day.
RecentResults(S, a, b, spread, today) ==
    [i \in 1..DaysScanned |->
        LET n == IF (i - 1) \notin S THEN 0 ELSE IF (i - 1) % 2 = 0 THEN a ELSE b
        IN  IF n = 0 THEN SubNoMatches
            ELSE SubMatches([j \in 1..n |->
                               [id |-> <<i - 1, j>>,
                                date |-> today - (i - 1) - spread * (j - 1)]])]

\* The sub-queries that were made and answered with records.
succeeded_subqueries(recent, upcoming, standings, live) ==
    LET r == \A i \in 1..Len(recent) : recent[i].kind # "raise"
        u == r /\ upcoming.kind # "raise"
        s == u /\ standings.kind # "raise"
        l == s /\ live.kind # "raise"
    IN  (IF r /\ merge_days(recent) # <<>> THEN {"recent"} ELSE {})
        \cup (IF u /\ rows(upcoming) # <<>> THEN {"upcoming"} ELSE {})
        \cup (IF s /\ rows(standings) # <<>> THEN {"standings"} ELSE {})
        \cup (IF l /\ rows(live) # <<>> THEN {"live"} ELSE {})

InitBatch ==
    /\ now = BatchStart
    /\ memory_cache = EmptyMap
    /\ files = EmptyMap
    /\ default_ttl = 3600
    /\ last_request_time = EmptyMap
    /\ request_count = EmptyMap
    /\ returned = EmptyMap
    /\ calls = 0
    /\ call = [op |-> "init"]

\* A caller invokes get_comprehensive_league_data("PL").  raise_at names the
\* sub-query that raises, if one does.
GetComprehensive ==
    /\ call.op = "init"
    /\ \E S \in DaySets, a \in 0..MaxPerDay, b \in 0..MaxPerDay, spread \in {0, 1},
          raise_at \in {None, "recent", "upcoming", "standings", "live"},
          u \in {SubNoMatches, SubMatches(<<Match1, Match2>>)},
          s \in {SubNoStandings, SubStandings},
          l \in {SubNoMatches, SubMatches(<<Match1>>)} :
         LET days == RecentResults(S, a, b, spread, date_of(now))
             recent == IF raise_at = "recent"
                       THEN [days EXCEPT ![DaysScanned] = Raises] ELSE days
             upcoming == IF raise_at = "upcoming" THEN Raises ELSE u
             standings == IF raise_at = "standings" THEN Raises ELSE s
             live == IF raise_at = "live" THEN Raises ELSE l
             r == get_comprehensive_league_data(memory_cache, files, now, "PL", None,
                                                recent, upcoming, standings, live)
         IN /\ memory_cache' = r.memory
            /\ files' = r.files
            /\ call' = [op |-> "get_comprehensive_league_data",
                        ret |-> r.ret, raised |-> r.raised, fetched |-> r.fetched,
                        stored |-> r.stored,
                        merged |-> IF raise_at = "recent" THEN <<>> ELSE merge_days(recent),
                        succeeded |-> succeeded_subqueries(recent, upcoming, standings, live)]
    /\ calls' = calls + 1
    /\ UNCHANGED <<now, default_ttl>>
    /\ rateVarsUnchanged

NextBatch == GetComprehensive

SpecBatch == InitBatch /\ [][NextBatch]_vars

\* C15: recent_matches of the composite is sorted by date descending, holds at
\* most 20 matches, all of them found by the scan, and when the scan found more
\* than 20 it holds 20 of them, none older than a match left out.
C15_RecentSortedAndCapped ==
    (/\ call.op = "get_comprehensive_league_data"
     /\ "recent_matches" \in DOMAIN call.ret.data)
        => LET r == call.ret.data.recent_matches
               found == { call.merged[i] : i \in 1..Len(call.merged) }
               kept == { r[i] : i \in 1..Len(r) }
           IN  /\ Len(r) <= 20
               /\ \A i \in 1..(Len(r) - 1) : r[i].date >= r[i + 1].date
               /\ kept \subseteq found
               /\ Cardinality(kept) = Len(r)
               /\ Len(r) = (IF Len(call.merged) > 20 THEN 20 ELSE Len(call.merged))
               /\ \A x \in found \ kept : \A y \in kept : x.date <= y.date

\* C15 witness: the scan found more than 20 matches, whose dates were not in
\* descending order, and the composite kept 20.
C15_Witness ==
    /\ call.op = "get_comprehensive_league_data"
    /\ "recent_matches" \in DOMAIN call.ret.data
    /\ Len(call.merged) > 20
    /\ \E i \in 1..(Len(call.merged) - 1) : call.merged[i].date < call.merged[i + 1].date
    /\ Len(call.ret.data.recent_matches) = 20

\* C16: the composite has success = TRUE whenever a sub-query (recent,
\* upcoming, standings, live) succeeded, and has success = FALSE with an error
\* string exactly when every sub-query failed.
C16_SuccessIffSomeSubquerySucceeded ==
    call.op = "get_comprehensive_league_data"
        => /\ call.succeeded # {} => call.ret.success
           /\ call.succeeded = {} <=> (~call.ret.success /\ call.ret.error # None)

(***************************************************************************)
(* The standings adapters: _get_standings_football_data and                 *)
(* _get_standings_api_football turn the body _make_request returns into     *)
(* StandingsRows.  SpecStandings: one get_standings("WC") on an empty       *)
(* cache, the bodies of the two sources being inputs.                       *)
(***************************************************************************)

\* The most tables (football-data.org) or league blocks (api-football.com) of
\* one response body.
MaxTables == 2

\* The most teams of one table.
MaxRows == 2

\* The table of group g with n teams as the sources send it: positions 1..n in
\* ascending order.
UpstreamTable(g, n) == [p \in 1..n |-> [position |-> p, team |-> <<g, p>>]]

\* The tables football-data.org can send for group g: of type TOTAL or HOME.
FootballDataTables(g) ==
    { [type |-> ty, table |-> UpstreamTable(g, n)] :
        ty \in {"TOTAL", "HOME"}, n \in 0..MaxRows }

\* The bodies of football-data.org: None when the request failed, or a
\* 'standings' list of at most MaxTables tables, one per group.
FootballDataBodies ==
    {NoneVal}
    \cup UNION { { [kind |-> "dict", standings |-> ts] :
                     ts \in { s \in [1..n -> UNION { FootballDataTables(g) : g \in 1..MaxTables }] :
                                \A i \in 1..n : s[i] \in FootballDataTables(i) } } :
                 n \in 0..MaxTables }

\* The league blocks api-football.com can send: block b holds the list of its
\* groups' tables under league.standings.
ApiFootballBlocks(b) ==
    { [standings |-> gs] :
        gs \in { <<>>, <<UpstreamTable(b, MaxRows)>>,
                 <<UpstreamTable(b, MaxRows), UpstreamTable(b + MaxTables, MaxRows)>> } }

\* The bodies of api-football.com: None, or a 'response' list of league blocks.
ApiFootballBodies ==
    {NoneVal}
    \cup UNION { { [kind |-> "dict", response |-> bs] :
                     bs \in { s \in [1..n -> UNION { ApiFootballBlocks(b) : b \in 1..MaxTables }] :
                                \A i \in 1..n : s[i] \in ApiFootballBlocks(i) } } :
                 n \in 0..MaxTables }

\* The rows of the tables of type TOTAL, table after table (lines 432-446).
RECURSIVE total_rows(_)
total_rows(tables) ==
    IF tables = <<>> THEN <<>>
    ELSE (IF Head(tables).type = "TOTAL" THEN Head(tables).table ELSE <<>>)
         \o total_rows(Tail(tables))

\* The rows of the first group of every league block (lines 475-477).
RECURSIVE first_group_rows(_)
first_group_rows(blocks) ==
    IF blocks = <<>> THEN <<>>
    ELSE Head(blocks).standings[1] \o first_group_rows(Tail(blocks))

\* _get_standings_football_data on the body data, lines 430-453: None when the
\* body is empty or has no 'standings'.
standings_football_data(data) ==
    IF data = NoneVal \/ data.standings = <<>> THEN NoneVal
    ELSE [kind |-> "dict", standings |-> total_rows(data.standings),
          source |-> "football-data.org", league |-> "World Cup",
          season |-> "2024", error |-> None]

\* _get_standings_api_football on the body data, lines 473-495: [0] of an empty
\* 'standings' list raises IndexError, which the adapter turns into None.
standings_api_football(data) ==
    IF data = NoneVal \/ data.response = <<>> THEN NoneVal
    ELSE IF \E i \in 1..Len(data.response) : data.response[i].standings = <<>>
    THEN NoneVal
    ELSE [kind |-> "dict", standings |-> first_group_rows(data.response),
          source |-> "api-football.com", league |-> "World Cup",
          season |-> CurrentYear, error |-> None]

InitStandings ==
    /\ now = 0
    /\ memory_cache = EmptyMap
    /\ files = EmptyMap
    /\ default_ttl = 1800
    /\ last_request_time = EmptyMap
    /\ request_count = EmptyMap
    /\ returned = EmptyMap
    /\ calls = 0
    /\ call = [op |-> "init"]

\* A caller invokes get_standings("WC", force_live=...); the adapters parse the
\* bodies fd and af.
GetStandingsOf ==
    /\ call.op = "init"
    /\ \E force_live \in BOOLEAN, fd \in FootballDataBodies, af \in ApiFootballBodies :
         LET o1 == standings_football_data(fd)
             o2 == standings_api_football(af)
             r == get_standings(memory_cache, files, now, "WC", None, force_live,
                                Outcomes(o1, o2))
         IN /\ has_records(o1) => af = NoneVal
            /\ memory_cache' = r.memory
            /\ files' = r.files
            /\ call' = [op |-> "get_standings", force_live |-> force_live,
                        football_data |-> fd, api_football |-> af,
                        ret |-> r.ret, raised |-> r.raised, log |-> r.log]
    /\ calls' = calls + 1
    /\ UNCHANGED <<now, default_ttl>>
    /\ rateVarsUnchanged

NextStandings == GetStandingsOf

SpecStandings == InitStandings /\ [][NextStandings]_vars

\* C17: the rows of every standings list get_standings returns are in ascending
\* order of position and no position occurs twice, whatever the sources sent,
\* several TOTAL tables or several league blocks included.
C17_StandingsSortedUniquePositions ==
    (call.op = "get_standings" /\ call.raised = None)
        => \A i \in 1..(Len(call.ret.standings) - 1) :
              call.ret.standings[i].position < call.ret.standings[i + 1].position

\* C18: get answers from the memory tier, leaving both tiers as they are, when
\* the memory entry of the key is fresh (its age is below the ttl argument, or
\* below the entry's own TTL when get has no ttl argument); otherwise the
\* memory entry, if any, is evicted and the file is consulted: a fresh entry
\* in the file is returned and put into the memory tier, and without a fresh
\* entry in the file get returns None.
C18_MemoryFirstThenFile ==
    [][ (calls' # calls /\ call'.op = "get")
        => LET k == call'.key
               fresh(e) == now - e.timestamp
                               < (IF call'.ttl = NoneTtl THEN e.ttl ELSE call'.ttl)
               memFresh == k \in DOMAIN memory_cache /\ fresh(memory_cache[k])
               fileFresh == /\ k \in DOMAIN files
                            /\ files[k].json = "entry"
                            /\ fresh(files[k].entry)
           IN  IF memFresh
               THEN /\ call'.ret = memory_cache[k].data
                    /\ call'.tier = "memory"
                    /\ memory_cache' = memory_cache
                    /\ files' = files
               ELSE /\ fileFresh => /\ call'.ret = files[k].entry.data
                                    /\ call'.tier = "file"
                                    /\ k \in DOMAIN memory_cache'
                                    /\ memory_cache'[k] = files[k].entry
                    /\ (k \in DOMAIN memory_cache /\ ~fileFresh)
                           => k \notin DOMAIN memory_cache'
                    /\ (k \notin DOMAIN files \/ (files[k].json = "entry" /\ ~fileFresh))
                           => call'.ret = NoneVal ]_vars

(***************************************************************************)
(* CacheManager.set and CacheManager.get of one key run by threads of one   *)
(* process, without a lock: one writer, MaxReaders readers.  The steps are  *)
(* the statements that touch the memory tier or the cache file.  call holds *)
(* each thread's position.  os.remove of a file that the writer has open    *)
(* unlinks it: what the writer writes afterwards is lost when it closes.    *)
(***************************************************************************)

\* The readers of SpecThreads.
MaxReaders == 2

Readers == 1..MaxReaders

\* The key the threads work on.
ThreadsKey == generate_cache_key(<< <<"type", "matches">>, <<"league", "PL">> >>)

\* A cache file opened with 'w' into which json.dump has not written everything.
PartialContent == [json |-> "partial"]

\* The entry the writer's set(key, data) stores.
NewEntry == [data |-> [kind |-> "dict", error |-> None, payload |-> "v2"],
             timestamp |-> now, ttl |-> ttl_or_default(NoneTtl)]

\* The entry of an earlier set, by now 3600 s old or 60 s old.
OldEntries ==
    { [data |-> [kind |-> "dict", error |-> None, payload |-> "v1"],
       timestamp |-> ts, ttl |-> 3600] : ts \in {0, 3540} }

\* What json.load and entry['timestamp'] raise on a file's text.
read_error(content) ==
    IF content = PartialContent THEN "JSONDecodeError" ELSE load_error(content)

\* Reader i at position pc, with the value its get returned.
ReaderAt(i, pc, ret) == [call EXCEPT !.r[i].pc = pc, !.r[i].ret = ret]

InitThreads ==
    /\ now = 3600
    /\ default_ttl = 3600
    /\ \E old \in OldEntries :
         /\ memory_cache \in {EmptyMap, Put(EmptyMap, ThreadsKey, old)}
         /\ files \in {EmptyMap, Put(EmptyMap, ThreadsKey, json_dump(old))}
    /\ last_request_time = EmptyMap
    /\ request_count = EmptyMap
    /\ returned = EmptyMap
    /\ calls = 0
    /\ call = [op |-> "threads", w |-> "set", fd |-> "closed",
               r |-> [i \in Readers |->
                        [pc |-> "get", ret |-> NoneVal, saw_partial |-> FALSE]]]

\* set, line 82: self.memory_cache[cache_key] = entry
SetMemory ==
    /\ call.op = "threads" /\ call.w = "set"
    /\ memory_cache' = Put(memory_cache, ThreadsKey, NewEntry)
    /\ call' = [call EXCEPT !.w = "open"]
    /\ UNCHANGED <<now, files, default_ttl, calls>>
    /\ rateVarsUnchanged

\* set, line 87: open(cache_file, 'w') creates or truncates the file.
SetOpen ==
    /\ call.op = "threads" /\ call.w = "open"
    /\ files' = Put(files, ThreadsKey, PartialContent)
    /\ call' = [call EXCEPT !.w = "dump", !.fd = "open"]
    /\ UNCHANGED <<now, memory_cache, default_ttl, calls>>
    /\ rateVarsUnchanged

\* set, line 88 and the end of the with block: json.dump writes the entry and
\* the file is closed; the text reaches the directory unless the file was
\* unlinked meanwhile.
SetDump ==
    /\ call.op = "threads" /\ call.w = "dump"
    /\ files' = IF call.fd = "open" THEN Put(files, ThreadsKey, json_dump(NewEntry))
                ELSE files
    /\ call' = [call EXCEPT !.w = "done", !.fd = "closed"]
    /\ calls' = calls + 1
    /\ UNCHANGED <<now, memory_cache, default_ttl>>
    /\ rateVarsUnchanged

\* get, lines 42-48: the memory tier.
GetMemory(i) ==
    /\ call.op = "threads" /\ call.r[i].pc = "get"
    /\ IF ThreadsKey \in DOMAIN memory_cache
       THEN IF is_cache_valid(now, memory_cache[ThreadsKey], NoneTtl)
            THEN /\ call' = ReaderAt(i, "done", memory_cache[ThreadsKey].data)
                 /\ UNCHANGED memory_cache
            ELSE /\ call' = ReaderAt(i, "exists", NoneVal)
                 /\ memory_cache' = Remove(memory_cache, ThreadsKey)
       ELSE /\ call' = ReaderAt(i, "exists", NoneVal)
            /\ UNCHANGED memory_cache
    /\ UNCHANGED <<now, files, default_ttl, calls>>
    /\ rateVarsUnchanged

\* get, line 52: os.path.exists(cache_file)
GetExists(i) ==
    /\ call.op = "threads" /\ call.r[i].pc = "exists"
    /\ call' = ReaderAt(i, IF ThreadsKey \in DOMAIN files THEN "load" ELSE "done", NoneVal)
    /\ UNCHANGED <<now, memory_cache, files, default_ttl, calls>>
    /\ rateVarsUnchanged

\* get, lines 54-60: the file is opened and loaded; a fresh entry is put into
\* the memory tier and returned.  A file that is gone raises OSError, whose
\* handler finds nothing to remove.
GetLoad(i) ==
    /\ call.op = "threads" /\ call.r[i].pc = "load"
    /\ IF ThreadsKey \notin DOMAIN files
       THEN /\ call' = ReaderAt(i, "done", NoneVal)
            /\ UNCHANGED memory_cache
       ELSE LET content == files[ThreadsKey]
            IN  IF read_error(content) # None
                THEN /\ call' = [ReaderAt(i, IF get_catches(read_error(content))
                                             THEN "remove" ELSE "raised", NoneVal)
                                   EXCEPT !.r[i].saw_partial = (content = PartialContent)]
                     /\ UNCHANGED memory_cache
                ELSE IF is_cache_valid(now, content.entry, NoneTtl)
                THEN /\ call' = ReaderAt(i, "done", content.entry.data)
                     /\ memory_cache' = Put(memory_cache, ThreadsKey, content.entry)
                ELSE /\ call' = ReaderAt(i, "remove", NoneVal)
                     /\ UNCHANGED memory_cache
    /\ UNCHANGED <<now, files, default_ttl, calls>>
    /\ rateVarsUnchanged

\* get, lines 63 and 67: os.remove(cache_file) removes the file the path names
\* now; an OSError (no such file) is passed over.
GetRemove(i) ==
    /\ call.op = "threads" /\ call.r[i].pc = "remove"
    /\ files' = Remove(files, ThreadsKey)
    /\ call' = [ReaderAt(i, "done", NoneVal)
                  EXCEPT !.fd = IF call.fd = "open" /\ ThreadsKey \in DOMAIN files
                                THEN "unlinked" ELSE call.fd]
    /\ UNCHANGED <<now, memory_cache, default_ttl, calls>>
    /\ rateVarsUnchanged

NextThreads ==
    \/ SetMemory
    \/ SetOpen
    \/ SetDump
    \/ \E i \in Readers : GetMemory(i)
    \/ \E i \in Readers : GetExists(i)
    \/ \E i \in Readers : GetLoad(i)
    \/ \E i \in Readers : GetRemove(i)

SpecThreads == InitThreads /\ [][NextThreads]_vars

\* C19: with one set and concurrent gets of the same key, no get reads a file
\* that is only partly written, and once the set has completed the cache file
\* holds the complete new entry.
C19_ReadersNeverSeePartialNorDelete ==
    call.op = "threads"
        => /\ \A i \in Readers : ~call.r[i].saw_partial
           /\ call.w = "done"
              => /\ ThreadsKey \in DOMAIN files
                 /\ files[ThreadsKey].json = "entry"
                 /\ files[ThreadsKey].entry.data.payload = "v2"

(***************************************************************************)
(* DataSourceManager._rate_limit called by several threads for one source,  *)
(* as the code has it: without a lock.  A call is three steps, a sleep      *)
(* between them: lines 40-58, lines 59-68 and the writes of lines 71-72.    *)
(* call holds each thread's position and locals.                            *)
(***************************************************************************)

\* The threads of SpecLimiterThreads.
MaxThreads == 2

\* The most _rate_limit calls the threads make together.
MaxLimiterCalls == 3

\* No thread is scheduled later than this second, except to end a sleep.
ThreadsHorizon == 2

Threads == 1..MaxThreads

\* The source all the threads name.
ThreadsSource == "football-data"

\* A thread outside _rate_limit.
IdleThread == [pc |-> "idle", t0 |-> 0, current_minute |-> 0,
               current_requests |-> 0, wake |-> 0]

InitLimiterThreads ==
    /\ now = 0
    /\ memory_cache = EmptyMap
    /\ files = EmptyMap
    /\ default_ttl = 1800
    /\ last_request_time = EmptyMap
    /\ request_count = EmptyMap
    /\ returned = [s \in Sources |-> EmptyMap]
    /\ calls = 0
    /\ call = [op |-> "rate_limit_threads", times |-> <<>>,
               t |-> [i \in Threads |-> IdleThread]]

\* Lines 40-58 in thread i: the clock is read, the old buckets are dropped, the
\* bucket of the minute is read, and the thread sleeps when the cap is reached.
LimiterEnter(i) ==
    /\ call.op = "rate_limit_threads" /\ call.t[i].pc = "idle"
    /\ calls < MaxLimiterCalls
    /\ now <= ThreadsHorizon
    /\ LET counts == clean_old(counts_of(request_count, ThreadsSource), minute_of(now))
           current_requests == get0(counts, minute_of(now))
       IN /\ request_count' = Put(request_count, ThreadsSource, counts)
          /\ call' = [call EXCEPT !.t[i] =
                        [pc |-> "cap", t0 |-> now, current_minute |-> minute_of(now),
                         current_requests |-> current_requests,
                         wake |-> now + cap_sleep(current_requests, now)]]
    /\ calls' = calls + 1
    /\ UNCHANGED <<now, last_request_time, returned>>
    /\ cacheVarsUnchanged

\* Lines 59-68 in thread i, once the cap sleep (if any) is over: after a sleep the
\* minute is read again and the count reset; the last request time is read and
\* compared with the time read on entry, and the thread sleeps for the interval.
LimiterInterval(i) ==
    /\ call.op = "rate_limit_threads" /\ call.t[i].pc = "cap"
    /\ now >= call.t[i].wake
    /\ LET slept == call.t[i].wake > call.t[i].t0
       IN call' = [call EXCEPT !.t[i] =
                     [pc |-> "interval", t0 |-> call.t[i].t0,
                      current_minute |-> IF slept THEN minute_of(now)
                                         ELSE call.t[i].current_minute,
                      current_requests |-> IF slept THEN 0
                                           ELSE call.t[i].current_requests,
                      wake |-> now + interval_sleep(last_request_time, call.t[i].t0,
                                                    ThreadsSource)]]
    /\ UNCHANGED <<now, calls>>
    /\ cacheVarsUnchanged
    /\ rateVarsUnchanged

\* Lines 71-72 in thread i, once its sleeps are over: the request time and the
\* bucket are written, and the call returns.
LimiterUpdate(i) ==
    /\ call.op = "rate_limit_threads" /\ call.t[i].pc = "interval"
    /\ now >= call.t[i].wake
    /\ last_request_time' = Put(last_request_time, ThreadsSource, now)
    /\ request_count' = Put(request_count, ThreadsSource,
                            Put(counts_of(request_count, ThreadsSource),
                                call.t[i].current_minute,
                                call.t[i].current_requests + 1))
    /\ returned' = [returned EXCEPT ![ThreadsSource] =
                      Put(@, minute_of(now), get0(@, minute_of(now)) + 1)]
    /\ call' = [call EXCEPT !.t[i] = IdleThread, !.times = Append(call.times, now)]
    /\ UNCHANGED <<now, calls>>
    /\ cacheVarsUnchanged

\* Time passes: a second, or up to the end of a thread's sleep.
LimiterTick ==
    /\ call.op = "rate_limit_threads"
    /\ \/ now < ThreadsHorizon /\ now' = now + 1
       \/ \E i \in Threads : /\ call.t[i].pc \in {"cap", "interval"}
                             /\ call.t[i].wake > now
                             /\ now' = call.t[i].wake
    /\ UNCHANGED <<calls, call>>
    /\ cacheVarsUnchanged
    /\ rateVarsUnchanged

NextLimiterThreads ==
    \/ LimiterTick
    \/ \E i \in Threads : LimiterEnter(i)
    \/ \E i \in Threads : LimiterInterval(i)
    \/ \E i \in Threads : LimiterUpdate(i)

SpecLimiterThreads == InitLimiterThreads /\ [][NextLimiterThreads]_vars

\* C20: with several threads calling _rate_limit for one source, every call is
\* recorded (the bucket of a minute counts the calls that returned in it), the
\* recorded requests are min_interval apart, and no minute sees more than
\* max_requests_per_minute returns.
C20_LimiterStateUnderMutualExclusion ==
    call.op = "rate_limit_threads"
        => /\ \A m \in DOMAIN returned[ThreadsSource] :
                /\ get0(counts_of(request_count, ThreadsSource), m)
                       = returned[ThreadsSource][m]
                /\ returned[ThreadsSource][m] <= max_requests_per_minute
           /\ \A k \in 1..(Len(call.times) - 1) :
                call.times[k + 1] - call.times[k] >= min_interval


\* C21: in a get_matches call through the cache for a query with a date, when
\* the fetch ran and neither the primary nor the secondary adapter yielded
\* records, exactly one broadened query (the date dropped) is made after them,
\* whether or not the query has a league.
C21_BroadenedFallbackWhenBothEmpty ==
    (/\ call.op = "get_matches"
     /\ ~call.force_live
     /\ call.raised = None
     /\ call.query[2] # None
     /\ Len(call.log) >= 2
     /\ ~has_records(call.log[1].outcome)
     /\ ~has_records(call.log[2].outcome))
        => /\ Len(call.log) = 3
           /\ call.log[3].args[2] = None


\* The result of the call's query when every adapter returns None.
all_sources_failed(q, force_live) ==
    get_matches(EmptyMap, EmptyMap, now, q[1], q[2], q[3], force_live,
                Outcomes(NoneVal, NoneVal), NoneVal).ret

\* C23: a get_matches call in which an adapter answered with zero records (and no
\* adapter with any) returns a result that differs from the result of the same
\* query when every adapter returned None.
C23_NoDataDiffersFromSourceFailed ==
    (/\ call.op = "get_matches"
     /\ call.raised = None
     /\ call.log # <<>>
     /\ \A i \in 1..Len(call.log) : ~has_records(call.log[i].outcome)
     /\ \E i \in 1..Len(call.log) :
          /\ call.log[i].outcome.kind = "dict"
          /\ call.log[i].outcome.error = None)
        => call.ret # all_sources_failed(call.query, call.force_live)


\* C22: within one _make_request call, the attempt of index k that is followed
\* by another attempt is followed after 60 * (k + 1) seconds when it received
\* HTTP 429 and after RETRY_DELAY * (k + 1) seconds otherwise, and no sleep
\* follows the last attempt of the call.
C22_BackoffBetweenAttemptsOnly ==
    call.op = "_make_request"
        => \A i \in 1..Len(call.log) :
              IF i < Len(call.log)
              THEN /\ call.log[i].slept = (IF call.log[i].outcome = "429"
                                           THEN 60 * (call.log[i].attempt + 1)
                                           ELSE RETRY_DELAY * (call.log[i].attempt + 1))
                   /\ call.log[i + 1].sent_at = call.log[i].sent_at + call.log[i].slept
              ELSE call.log[i].slept = 0


(***************************************************************************)
(* SpecSnapshot: get_comprehensive_league_data("PL") called again and again *)
(* over an evening and the night that follows, on the CacheManager of       *)
(* optimized_tools (default_ttl 3600), from an empty cache.                 *)
(***************************************************************************)

\* The most calls one run of SpecSnapshot makes.
MaxSnapshotCalls == 3

\* time.time() at the start of SpecSnapshot: 23:40:00 of day 20.
SnapshotStart == 1813200

\* The times at which SpecSnapshot's callers act: 23:40, 23:50, 00:05, one second
\* before and at 00:10, and 00:30.
SnapshotInstants == { SnapshotStart + d : d \in {0, 600, 1500, 1799, 1800, 3000} }

InitSnapshot ==
    /\ now = SnapshotStart
    /\ memory_cache = EmptyMap
    /\ files = EmptyMap
    /\ default_ttl = 3600
    /\ last_request_time = EmptyMap
    /\ request_count = EmptyMap
    /\ returned = EmptyMap
    /\ calls = 0
    /\ call = [op |-> "init", fresh |-> NoneVal]

\* Time passes between two calls.
SnapshotTick ==
    /\ \E t \in SnapshotInstants : t > now /\ now' = t
    /\ UNCHANGED <<memory_cache, files, default_ttl, calls, call>>
    /\ rateVarsUnchanged

\* A caller invokes get_comprehensive_league_data("PL").  The sub-queries, when
\* they are made, all find records (a match on each of the last three days) or
\* none does; raise_at names the sub-query that raises, if one does.  fresh
\* keeps the last successful composite that was fetched, and when.
GetSnapshot ==
    /\ calls < MaxSnapshotCalls
    /\ \E found \in BOOLEAN, raise_at \in {None, "live"} :
         LET a == IF found THEN 1 ELSE 0
             u == IF found THEN SubMatches(<<Match1, Match2>>) ELSE SubNoMatches
             s == IF found THEN SubStandings ELSE SubNoStandings
             l == IF found THEN SubMatches(<<Match1>>) ELSE SubNoMatches
             recent == RecentResults({0, 1, 2}, a, a, 0, date_of(now))
             live == IF raise_at = "live" THEN Raises ELSE l
             r == get_comprehensive_league_data(memory_cache, files, now, "PL", None,
                                                recent, u, s, live)
             successful == r.fetched /\ r.raised = None /\ r.ret.success
         IN /\ memory_cache' = r.memory
            /\ files' = r.files
            /\ call' = [op |-> "get_comprehensive_league_data",
                        ret |-> r.ret, raised |-> r.raised, fetched |-> r.fetched,
                        stored |-> r.stored, at |-> now,
                        succeeded |-> IF r.fetched
                                      THEN succeeded_subqueries(recent, u, s, live)
                                      ELSE {},
                        fresh |-> IF successful THEN [ret |-> r.ret, at |-> now]
                                  ELSE call.fresh]
    /\ calls' = calls + 1
    /\ UNCHANGED <<now, default_ttl>>
    /\ rateVarsUnchanged

NextSnapshot ==
    \/ SnapshotTick
    \/ GetSnapshot

SpecSnapshot == InitSnapshot /\ [][NextSnapshot]_vars

\* C24: once get_comprehensive_league_data has fetched a successful composite,
\* every further call with the same league and season made less than 1800 s
\* later returns that composite and makes no sub-query.
C24_CompositeServedFor30Minutes ==
    [][ (/\ calls' # calls
         /\ call.fresh # NoneVal
         /\ now - call.fresh.at < 1800)
        => (/\ call'.raised = None
            /\ ~call'.fetched
            /\ call'.ret = call.fresh.ret) ]_vars


\* C28: a league composite in which every sub-query failed (none answered with
\* records) is not stored: the next call with the same arguments makes the
\* sub-queries again.
C28_AllFailedCompositeNotCached ==
    [][ (/\ calls' # calls
         /\ call.op = "get_comprehensive_league_data"
         /\ call.fetched
         /\ call.succeeded = {})
        => (/\ ~call.stored
            /\ call'.fetched) ]_vars


\* The limiter state d (last_request_time or request_count) of source s alone.
only_source(d, s) == [k \in DOMAIN d \cap {s} |-> d[k]]

\* C25: a _rate_limit call for one source leaves the last request time and the
\* minute buckets of every other source as they were, and returns at the time
\* it would return at if the other sources had never made a request.
C25_SourcesIndependent ==
    [][ (/\ calls' # calls
         /\ call'.op = "_rate_limit")
        => (/\ \A o \in Sources \ {call'.source} :
                 /\ only_source(last_request_time', o) = only_source(last_request_time, o)
                 /\ only_source(request_count', o) = only_source(request_count, o)
            /\ now' = rate_limit(only_source(last_request_time, call'.source),
                                 only_source(request_count, call'.source),
                                 now, call'.source).time) ]_vars

\* C25 witness: an api-football call returned without any sleep in the second in
\* which football-data had made its last request and reached its cap.
C25_Witness ==
    /\ call.op = "_rate_limit"
    /\ call.source = "api-football"
    /\ ~call.cap_slept
    /\ ~call.interval_slept
    /\ now = call.entered
    /\ "football-data" \in DOMAIN last_request_time
    /\ last_request_time["football-data"] = now
    /\ get0(counts_of(request_count, "football-data"), minute_of(now))
           >= max_requests_per_minute


\* C26: entries are never rejuvenated.  A get called with a TTL returns the data
\* of an entry younger than that TTL; and an entry of either tier is the entry
\* that tier held before the step, or the file's entry promoted as it is, or an
\* entry that set stores in this step with the time of the step.
C26_NoRejuvenation ==
    [][ /\ (/\ calls' # calls
            /\ call'.op = "get"
            /\ call'.ttl # NoneTtl
            /\ call'.raised = None
            /\ call'.ret # NoneVal)
           => (/\ call'.key \in DOMAIN memory_cache'
               /\ memory_cache'[call'.key].data = call'.ret
               /\ now - memory_cache'[call'.key].timestamp < call'.ttl)
        /\ \A k \in DOMAIN memory_cache' :
             \/ k \in DOMAIN memory_cache /\ memory_cache'[k] = memory_cache[k]
             \/ /\ k \in DOMAIN files
                /\ files[k].json = "entry"
                /\ memory_cache'[k] = files[k].entry
             \/ /\ call'.op \in {"set", "get_or_fetch"}
                /\ memory_cache'[k].timestamp = now'
        /\ \A k \in DOMAIN files' :
             files'[k].json = "entry"
             => \/ k \in DOMAIN files /\ files'[k] = files[k]
                \/ /\ call'.op \in {"set", "get_or_fetch"}
                   /\ files'[k].entry.timestamp = now' ]_vars


\* The attempts of the last _make_request call that were sent in minute m.
sent_in_minute(m) == { i \in 1..Len(call.log) : minute_of(call.log[i].sent_at) = m }

\* C27: every request attempt of a _make_request call, retries included, is
\* counted in the source's bucket of the minute in which it is sent, and no
\* minute sees more than max_requests_per_minute attempts.
C27_EveryAttemptAcquired ==
    call.op = "_make_request"
        => \A i \in 1..Len(call.log) :
              LET m == minute_of(call.log[i].sent_at)
              IN  /\ Cardinality(sent_in_minute(m))
                        <= get0(counts_of(request_count, call.source), m)
                  /\ Cardinality(sent_in_minute(m)) <= max_requests_per_minute


(***************************************************************************)
(* SpecDirectory: the CacheManagers of the module-level DataSourceManagers  *)
(* (tools.py, optimized_tools.py), each CacheManager(cache_dir="cache",     *)
(* default_ttl=1800): one directory, a memory tier each.  Here memory_cache *)
(* maps each instance to its memory tier.  The operations of the instances  *)
(* follow one another, none overlaps another.                               *)
(***************************************************************************)

\* The CacheManager instances over the one directory.
MaxInstances == 2

\* The most operations one run of SpecDirectory invokes.
MaxDirCalls == 3

Instances == 1..MaxInstances

\* The times at which the instances' callers act.
DirInstants == {0, 600, 1800}

\* The key the instances work on.
DirKey == generate_cache_key(<< <<"type", "matches">>, <<"league", "PL">> >>)

InitDirectory ==
    /\ now = 0
    /\ memory_cache = [i \in Instances |-> EmptyMap]
    /\ files = EmptyMap
    /\ default_ttl = 1800
    /\ last_request_time = EmptyMap
    /\ request_count = EmptyMap
    /\ returned = EmptyMap
    /\ calls = 0
    /\ call = [op |-> "init", latest |-> NoneVal]

\* Time passes between two operations.
DirTick ==
    /\ \E t \in DirInstants : t > now /\ now' = t
    /\ UNCHANGED <<memory_cache, files, default_ttl, calls, call>>
    /\ rateVarsUnchanged

\* Instance i runs set(key, data).  latest keeps the value of the last completed
\* set on the directory (None after a clear_all).
DirSet(i) ==
    /\ calls < MaxDirCalls
    /\ \E data \in OkData :
         LET s == cache_set(memory_cache[i], files, now, DirKey, data, NoneTtl)
         IN /\ memory_cache' = [memory_cache EXCEPT ![i] = s.memory]
            /\ files' = s.files
            /\ call' = [op |-> "set", by |-> i, ret |-> NoneVal, raised |-> None,
                        latest |-> data]
    /\ calls' = calls + 1
    /\ UNCHANGED <<now, default_ttl>>
    /\ rateVarsUnchanged

\* Instance i runs get(key).
DirGet(i) ==
    /\ calls < MaxDirCalls
    /\ LET g == cache_get(memory_cache[i], files, now, DirKey, NoneTtl)
       IN /\ memory_cache' = [memory_cache EXCEPT ![i] = g.memory]
          /\ files' = g.files
          /\ call' = [op |-> "get", by |-> i, ret |-> g.ret, raised |-> g.raised,
                      latest |-> call.latest]
    /\ calls' = calls + 1
    /\ UNCHANGED <<now, default_ttl>>
    /\ rateVarsUnchanged

\* Instance i runs clear_all(): its memory tier and the directory are emptied.
DirClearAll(i) ==
    /\ calls < MaxDirCalls
    /\ memory_cache' = [memory_cache EXCEPT ![i] = EmptyMap]
    /\ files' = EmptyMap
    /\ call' = [op |-> "clear_all", by |-> i, ret |-> NoneVal, raised |-> None,
                latest |-> NoneVal]
    /\ calls' = calls + 1
    /\ UNCHANGED <<now, default_ttl>>
    /\ rateVarsUnchanged

NextDirectory ==
    \/ DirTick
    \/ \E i \in Instances : DirSet(i)
    \/ \E i \in Instances : DirGet(i)
    \/ \E i \in Instances : DirClearAll(i)

SpecDirectory == InitDirectory /\ [][NextDirectory]_vars

\* C29: with several CacheManager instances over one directory, a get that
\* returns a value returns the value of the most recent completed set for the
\* key, whichever instance ran it, and returns nothing after a clear_all that no
\* set has followed.
C29_InstancesSeeLatestSet ==
    (call.op = "get" /\ call.ret # NoneVal)
        => (call.latest # NoneVal /\ call.ret = call.latest)


\* What each adapter did when the manager called it with the query's own
\* arguments, read from the invocations of a call (None when it was not called).
behaviour_in(log) ==
    [n \in AdapterNames |->
        IF \E i \in 1..Len(log) : i <= 2 /\ log[i].adapter = n
        THEN log[CHOOSE i \in 1..Len(log) : i <= 2 /\ log[i].adapter = n].outcome
        ELSE NoneVal]

\* The same query with force_live and adapters that behave as in the invocations of log.
bypass_of(op, q, log) ==
    IF op = "get_matches"
    THEN get_matches_live(q[1], q[2], q[3], behaviour_in(log))
    ELSE get_standings_live(StandingsQuery[1], StandingsQuery[2], behaviour_in(log))

\* C30: a get_matches or get_standings call through an empty cache invokes the
\* adapters with the same arguments in the same order, and returns the same
\* records and source, as the same call with force_live does when the adapters
\* behave alike.
C30_CachedPathEqualsBypassPath ==
    [][ (/\ calls' # calls
         /\ memory_cache = EmptyMap
         /\ files = EmptyMap
         /\ call'.op \in {"get_matches", "get_standings"}
         /\ ~call'.force_live
         /\ call'.raised = None)
        => LET live == bypass_of(call'.op, call'.query, call'.log)
           IN  /\ Len(live.log) = Len(call'.log)
               /\ \A i \in 1..Len(live.log) :
                     /\ i <= Len(call'.log)
                     /\ live.log[i].adapter = call'.log[i].adapter
                     /\ live.log[i].args = call'.log[i].args
               /\ rows(live.ret) = rows(call'.ret)
               /\ live.ret.source = call'.ret.source ]_vars

====
